---- MODULE Spec2Model ----
(***************************************************************************)
(* Model of one ExecuteQuery call of gocbanalytics: the facade             *)
(* (httpQueryClient.Query), the executor loop (httpqueryclient             *)
(* Client.Query), the error classifier, the retry controller and           *)
(* Cluster.Close.                                                          *)
(*                                                                         *)
(* Time is counted in ticks of 100ms.  The HTTP client, the resolver and   *)
(* the JSON streamer are the environment: every outcome they can hand to   *)
(* Client.Query is a nondeterministic choice of the action that receives   *)
(* it.  Operations that take the caller's context (LookupHost, Do, body    *)
(* reads) return no later than the context deadline; time.Sleep does not   *)
(* take the context.                                                       *)
(***************************************************************************)
EXTENDS Integers, Sequences, FiniteSets, TLC

(* ---------------------------- bounds ---------------------------------- *)
MaxTime == 6
MaxStep == 0
MaxAddrs == 2
RetryBound == 1
MaxErrs == 2
MaxAttempts == 11
Draws == 8
MaxRaw == 1
MaxRows == 2
MaxCalls == 4
MaxInstant == 4
MaxGoroutines == 2
MaxBodies == 2

(* ----------------------- program constants ---------------------------- *)
MinBackoff == 1
MaxBackoff == 600
BackoffFactor == 2
SafetyPad == 50

NoTime == -1
NoRetries == -1

Host == "host"
Statement == "stmt"

Min2(a, b) == IF a < b THEN a ELSE b
Max2(a, b) == IF a > b THEN a ELSE b

RECURSIVE Pow(_, _)
Pow(x, n) == IF n = 0 THEN 1 ELSE x * Pow(x, n - 1)

(* ------------------------------ errors -------------------------------- *)
NilErr == [name |-> "nil"]
ErrAnalytics == [name |-> "analytics error"]
ErrTimeout == [name |-> "operation has timed out"]
ErrInvalidCredential == [name |-> "an invalid set of credentials was provided"]
ErrServiceUnavailable == [name |-> "service unavailable"]
ContextCanceled == [name |-> "context canceled"]
ContextDeadlineExceeded == [name |-> "context deadline exceeded"]
ErrContextDeadlineWouldBeExceeded ==
    [name |-> "operation not sent to server, as timeout would be exceeded",
     wraps |-> ContextDeadlineExceeded]
ErrNoErrorsInBody == [name |-> "query returned non-200 status code but no errors in body"]
ErrConnReset == [name |-> "connection reset by peer"]
ErrDial == [name |-> "dial tcp: connection refused"]
(* the dial error the connect-done hook sees when ctx ends the dial: net's   *)
(* canceledError Is context.Canceled, its timeoutError Is                   *)
(* context.DeadlineExceeded *)
ErrDialCanceled == [name |-> "dial tcp: operation was canceled", wraps |-> ContextCanceled]
ErrDialTimeout == [name |-> "dial tcp: i/o timeout", wraps |-> ContextDeadlineExceeded]
ErrDNS == [name |-> "no such host"]
ErrJSON == [name |-> "invalid character"]
ErrBodyRead == [name |-> "unexpected EOF"]

newObfuscateErrorWrapper(message, innerError) ==
    [Message |-> message, InnerError |-> innerError]

LookupError(err) == [name |-> "failed to lookup host", wraps |-> err]

(* errors.Is: follows Unwrap (QueryError.InnerError, %w, and the cause of   *)
(* the public AnalyticsError and QueryError); an obfuscateErrorWrapper has  *)
(* no Unwrap.                                                               *)
RECURSIVE ErrorsIs(_, _)
ErrorsIs(err, target) ==
    \/ err = target
    \/ /\ "wraps" \in DOMAIN err
       /\ ErrorsIs(err.wraps, target)
    \/ /\ "HTTPResponseCode" \in DOMAIN err
       /\ ErrorsIs(err.InnerError, target)
    \/ /\ "cause" \in DOMAIN err
       /\ ErrorsIs(err.cause, target)

(* Error(): the phrases the text of an error is put together from.  The     *)
(* JSON part of a QueryError text (statement, descriptions, endpoint) adds  *)
(* none of the phrases of the base errors and is left out.                  *)
RECURSIVE ErrorString(_)
ErrorString(err) ==
    IF "name" \in DOMAIN err
    THEN {err.name} \cup (IF "wraps" \in DOMAIN err THEN ErrorString(err.wraps) ELSE {})
    ELSE IF "Message" \in DOMAIN err
    THEN {err.Message} \cup ErrorString(err.InnerError)
    ELSE IF "HTTPResponseCode" \in DOMAIN err
    THEN ErrorString(err.InnerError)
    ELSE IF "code" \in DOMAIN err
    THEN ErrorString(err.cause)
    ELSE ErrorString(err.cause) \cup err.message

(* --------------------------- response data ----------------------------- *)
ErrorDescs ==
    { [Code |-> 23000, Message |-> "busy", Retry |-> TRUE],
      [Code |-> 24000, Message |-> "syntax", Retry |-> FALSE] }

ErrorLists == UNION { [1..n -> ErrorDescs] : n \in 1..MaxErrs }

NoText == [shape |-> "empty", errors |-> <<>>]

(* The bytes of a response body or of a trailer, by what json.Unmarshal     *)
(* makes of them: "empty" does not parse, "noerrors" has no errors member,  *)
(* "badlist" has an errors member that is not a list of objects, "list"     *)
(* has a list (possibly empty).                                             *)
Bodies ==
    { [shape |-> s, errors |-> <<>>] :
        s \in {"empty", "noerrors", "badlist", "list"} }
    \cup { [shape |-> "list", errors |-> l] : l \in ErrorLists }

Statuses == {401, 500, 503}

(* ------------------------------ durations ------------------------------ *)
DurationString(d) == <<"d", d>>
ParseDuration(s) == s[2]

(* json.Marshal of the payload map. *)
NilBody == [nil |-> TRUE]
Marshal(p) ==
    [client_context_id |-> p.client_context_id,
     statement |-> p.statement,
     timeout |-> p.timeout]

(* ------------------------------ QueryError ----------------------------- *)
newAnalyticsError(innerError, statement, endpoint, responseCode) ==
    [InnerError |-> innerError,
     Statement |-> statement,
     Errors |-> <<>>,
     LastErrorCode |-> 0,
     LastErrorMsg |-> "",
     Endpoint |-> endpoint,
     ErrorText |-> NoText,
     HTTPResponseCode |-> responseCode]

withErrorText(e, errText) == [e EXCEPT !.ErrorText = errText]
withLastDetail(e, code, msg) == [e EXCEPT !.LastErrorCode = code, !.LastErrorMsg = msg]
withErrors(e, errors) == [e EXCEPT !.Errors = errors]

(* ---------------------------- error classifier ------------------------- *)
ParseFailure(respBody, statusCode, lastC, lastMsg) ==
    withErrorText(
        withLastDetail(
            newAnalyticsError(newObfuscateErrorWrapper("failed to parse response errors", ErrJSON),
                              Statement, Host, statusCode),
            lastC, lastMsg),
        respBody)

(* Variant: the 401 shortcut is missing, the body decides. *)
parseAnalyticsErrorResponse_no401(respBody, statusCode, lastC, lastMsg) ==
    IF respBody.shape = "empty"
    THEN ParseFailure(respBody, statusCode, lastC, lastMsg)
    ELSE IF respBody.shape = "noerrors"
    THEN IF statusCode = 503
         THEN newAnalyticsError(ErrServiceUnavailable, Statement, Host, statusCode)
         ELSE NilErr
    ELSE IF respBody.shape = "badlist"
    THEN ParseFailure(respBody, statusCode, lastC, lastMsg)
    ELSE IF Len(respBody.errors) = 0
    THEN NilErr
    ELSE withErrors(
            withErrorText(
                withLastDetail(newAnalyticsError(ErrAnalytics, Statement, Host, statusCode),
                               lastC, lastMsg),
                respBody),
            respBody.errors)

(* Variant: a body without an errors member is service-unavailable         *)
(* whatever the status.                                                     *)
parseAnalyticsErrorResponse_anyStatus(respBody, statusCode, lastC, lastMsg) ==
    IF statusCode = 401
    THEN newAnalyticsError(ErrInvalidCredential, Statement, Host, statusCode)
    ELSE IF respBody.shape = "empty"
    THEN ParseFailure(respBody, statusCode, lastC, lastMsg)
    ELSE IF respBody.shape = "noerrors"
    THEN newAnalyticsError(ErrServiceUnavailable, Statement, Host, statusCode)
    ELSE IF respBody.shape = "badlist"
    THEN ParseFailure(respBody, statusCode, lastC, lastMsg)
    ELSE IF Len(respBody.errors) = 0
    THEN NilErr
    ELSE withErrors(
            withErrorText(
                withLastDetail(newAnalyticsError(ErrAnalytics, Statement, Host, statusCode),
                               lastC, lastMsg),
                respBody),
            respBody.errors)

parseAnalyticsErrorResponse(respBody, statusCode, lastC, lastMsg) ==
    IF statusCode = 401
    THEN newAnalyticsError(ErrInvalidCredential, Statement, Host, statusCode)
    ELSE IF respBody.shape = "empty"
    THEN ParseFailure(respBody, statusCode, lastC, lastMsg)
    ELSE IF respBody.shape = "noerrors"
    THEN IF statusCode = 503
         THEN newAnalyticsError(ErrServiceUnavailable, Statement, Host, statusCode)
         ELSE NilErr
    ELSE IF respBody.shape = "badlist"
    THEN ParseFailure(respBody, statusCode, lastC, lastMsg)
    ELSE IF Len(respBody.errors) = 0
    THEN NilErr
    ELSE withErrors(
            withErrorText(
                withLastDetail(newAnalyticsError(ErrAnalytics, Statement, Host, statusCode),
                               lastC, lastMsg),
                respBody),
            respBody.errors)

NoDesc == [Code |-> 0, Message |-> "", Retry |-> FALSE]

(* Variant: the first entry alone decides. *)
isAnalyticsErrorRetriable_first(cErr) ==
    IF ErrorsIs(cErr, ErrServiceUnavailable)
    THEN [hasFirst |-> FALSE, first |-> NoDesc, retriable |-> TRUE]
    ELSE IF Len(cErr.Errors) = 0
    THEN [hasFirst |-> FALSE, first |-> NoDesc, retriable |-> FALSE]
    ELSE IF ~cErr.Errors[1].Retry
    THEN [hasFirst |-> FALSE, first |-> NoDesc, retriable |-> FALSE]
    ELSE [hasFirst |-> TRUE, first |-> cErr.Errors[1], retriable |-> TRUE]

(* Variant: the earlier predicate, for which an empty list is retriable. *)
isAnalyticsErrorRetriable_emptyRetriable(cErr) ==
    IF \E i \in 1..Len(cErr.Errors) : ~cErr.Errors[i].Retry
    THEN [hasFirst |-> FALSE, first |-> NoDesc, retriable |-> FALSE]
    ELSE IF Len(cErr.Errors) = 0
    THEN [hasFirst |-> FALSE, first |-> NoDesc, retriable |-> TRUE]
    ELSE [hasFirst |-> TRUE, first |-> cErr.Errors[1], retriable |-> TRUE]

isAnalyticsErrorRetriable(cErr) ==
    IF ErrorsIs(cErr, ErrServiceUnavailable)
    THEN [hasFirst |-> FALSE, first |-> NoDesc, retriable |-> TRUE]
    ELSE IF Len(cErr.Errors) = 0
    THEN [hasFirst |-> FALSE, first |-> NoDesc, retriable |-> FALSE]
    ELSE IF \E i \in 1..Len(cErr.Errors) : ~cErr.Errors[i].Retry
    THEN [hasFirst |-> FALSE, first |-> NoDesc, retriable |-> FALSE]
    ELSE [hasFirst |-> TRUE, first |-> cErr.Errors[1], retriable |-> TRUE]

(* ----------------------- errors of package cbanalytics ----------------- *)
cbanalytics_ErrAnalytics == [name |-> "analytics error", pkg |-> "cbanalytics"]
cbanalytics_ErrInvalidCredential == [name |-> "invalid credential", pkg |-> "cbanalytics"]
cbanalytics_ErrTimeout == [name |-> "timeout error", pkg |-> "cbanalytics"]
cbanalytics_ErrQuery == [name |-> "query error", pkg |-> "cbanalytics"]
cbanalytics_ErrServiceUnavailable == [name |-> "service unavailable", pkg |-> "cbanalytics"]
cbanalytics_ErrInvalidArgument == [name |-> "invalid argument", pkg |-> "cbanalytics"]

invalidArgumentError(argumentName, reason) ==
    [ArgumentName |-> argumentName, Reason |-> reason, wraps |-> cbanalytics_ErrInvalidArgument]

(* an option that is not set *)
NilOpt == "nil"

(* AnalyticsError *)
cbanalytics_newAnalyticsError(cause, statement, endpoint, statusCode) ==
    [cause |-> IF cause = NilErr THEN cbanalytics_ErrAnalytics ELSE cause,
     errors |-> <<>>,
     statement |-> statement,
     endpoint |-> endpoint,
     message |-> {},
     httpResponseCode |-> statusCode]

withMessage(e, message) == [e EXCEPT !.message = message]

(* QueryError: an AnalyticsError with the code and message reported *)
cbanalytics_newQueryError(cause, statement, endpoint, statusCode, code, message) ==
    [cause |-> [cause |-> IF cause = NilErr THEN cbanalytics_ErrQuery ELSE cause,
                errors |-> <<>>,
                statement |-> statement,
                endpoint |-> endpoint,
                message |-> {},
                httpResponseCode |-> statusCode],
     code |-> code,
     message |-> message]

cbanalytics_withErrors(e, errors) == [e EXCEPT !.cause.errors = errors]

analyticsErrorDescs(errors) ==
    [i \in 1..Len(errors) |-> [Code |-> errors[i].Code, Message |-> errors[i].Message]]

(* Variant: the first entry is reported whatever its flag. *)
firstNonRetriableErr_first(errors) == 1

(* index of the entry whose code and message are reported *)
firstNonRetriableErr(errors) ==
    LET nonRetriable == { i \in 1..Len(errors) : ~errors[i].Retry }
    IN  IF nonRetriable = {}
        THEN 1
        ELSE CHOOSE i \in nonRetriable : \A j \in nonRetriable : i <= j

(* Variant: the cause is decided by the codes of all the descriptions:      *)
(* timeout if any is 21002, else invalid credential if any is 20000. *)
translateClientError_anyEntry(err) ==
    IF "HTTPResponseCode" \notin DOMAIN err
    THEN err
    ELSE IF Len(err.Errors) = 0
    THEN LET baseErr ==
                 IF ErrorsIs(err, ErrInvalidCredential) THEN cbanalytics_ErrInvalidCredential
                 ELSE IF ErrorsIs(err, ErrServiceUnavailable) THEN cbanalytics_ErrServiceUnavailable
                 ELSE IF ErrorsIs(err, ErrTimeout) THEN cbanalytics_ErrTimeout
                 ELSE IF ErrorsIs(err, ContextCanceled) THEN ContextCanceled
                 ELSE IF ErrorsIs(err, ContextDeadlineExceeded) THEN ContextDeadlineExceeded
                 ELSE err
         IN  withMessage(
                 cbanalytics_newAnalyticsError(baseErr, err.Statement, err.Endpoint,
                                               err.HTTPResponseCode),
                 ErrorString(err.InnerError))
    ELSE LET descs == analyticsErrorDescs(err.Errors)
             k == firstNonRetriableErr(err.Errors)
             code == err.Errors[k].Code
             msg == err.Errors[k].Message
             cause ==
                 IF \E i \in 1..Len(err.Errors) : err.Errors[i].Code = 21002
                 THEN cbanalytics_ErrTimeout
                 ELSE IF \E i \in 1..Len(err.Errors) : err.Errors[i].Code = 20000
                 THEN cbanalytics_ErrInvalidCredential
                 ELSE NilErr
         IN  cbanalytics_withErrors(
                 cbanalytics_newQueryError(cause, err.Statement, err.Endpoint,
                                           err.HTTPResponseCode, code, msg),
                 descs)

translateClientError(err) ==
    IF "HTTPResponseCode" \notin DOMAIN err
    THEN err
    ELSE IF Len(err.Errors) = 0
    THEN LET baseErr ==
                 IF ErrorsIs(err, ErrInvalidCredential) THEN cbanalytics_ErrInvalidCredential
                 ELSE IF ErrorsIs(err, ErrServiceUnavailable) THEN cbanalytics_ErrServiceUnavailable
                 ELSE IF ErrorsIs(err, ErrTimeout) THEN cbanalytics_ErrTimeout
                 ELSE IF ErrorsIs(err, ContextCanceled) THEN ContextCanceled
                 ELSE IF ErrorsIs(err, ContextDeadlineExceeded) THEN ContextDeadlineExceeded
                 ELSE err
         IN  withMessage(
                 cbanalytics_newAnalyticsError(baseErr, err.Statement, err.Endpoint,
                                               err.HTTPResponseCode),
                 ErrorString(err.InnerError))
    ELSE LET descs == analyticsErrorDescs(err.Errors)
             k == firstNonRetriableErr(err.Errors)
             code == err.Errors[k].Code
             msg == err.Errors[k].Message
             cause ==
                 IF code = 20000 THEN cbanalytics_ErrInvalidCredential
                 ELSE IF code = 21002 THEN cbanalytics_ErrTimeout
                 ELSE IF code = 23000 THEN cbanalytics_ErrServiceUnavailable
                 ELSE IF ErrorsIs(err.InnerError, ErrTimeout) THEN cbanalytics_ErrTimeout
                 ELSE IF ErrorsIs(err.InnerError, ContextCanceled) THEN ContextCanceled
                 ELSE IF ErrorsIs(err.InnerError, ContextDeadlineExceeded)
                 THEN ContextDeadlineExceeded
                 ELSE NilErr
         IN  cbanalytics_withErrors(
                 cbanalytics_newQueryError(cause, err.Statement, err.Endpoint,
                                           err.HTTPResponseCode, code, msg),
                 descs)

HasNonRetriable(errors) == \E i \in 1..Len(errors) : ~errors[i].Retry

(* ---------------------------- retry controller ------------------------- *)
(* The delays calc(retryAttempts) can return: rand.Float64() is in [0, 1),  *)
(* so the scaled value is below min*factor^n, and it is then clamped.       *)
(* Variant: the lower clamp is missing. *)
analyticsExponentialBackoffWithJitter_nomin(retryAttempts) ==
    LET top == MinBackoff * Pow(BackoffFactor, retryAttempts) - 1
    IN  0 .. Min2(top, MaxBackoff)

analyticsExponentialBackoffWithJitter(retryAttempts) ==
    LET top == MinBackoff * Pow(BackoffFactor, retryAttempts) - 1
    IN  MinBackoff .. Max2(MinBackoff, Min2(top, MaxBackoff))

(* One evaluation of the calculator: rand.Float64() is r/Draws, and the     *)
(* delay is counted in 1/Draws of a tick, so that the scaling is exact.     *)
(* Variant: the bounds are applied to the exponential before it is scaled.  *)
backoffCalculator_clampFirst(retryAttempts, r) ==
    LET backoff == MinBackoff * Pow(BackoffFactor, retryAttempts)
        clamped == Max2(MinBackoff, Min2(backoff, MaxBackoff))
    IN  r * clamped

backoffCalculator(retryAttempts, r) ==
    LET backoff == MinBackoff * Pow(BackoffFactor, retryAttempts)
        scaled == r * backoff
        capped == IF scaled > MaxBackoff * Draws THEN MaxBackoff * Draws ELSE scaled
    IN  IF capped < MinBackoff * Draws THEN MinBackoff * Draws ELSE capped

(* Variant: the re-serialised payload is not handed back. *)
handleMaybeRetryAnalytics_nobody(ctxD, serverD, b, t, pl) ==
    IF ctxD # NoTime /\ t + b > ctxD - b
    THEN [err |-> ErrContextDeadlineWouldBeExceeded, payload |-> pl, body |-> NilBody, now |-> t]
    ELSE IF serverD # NoTime
    THEN LET serverTimeout == serverD - (t + b)
             newPl == [pl EXCEPT !.timeout = DurationString(serverTimeout)]
         IN  IF serverTimeout < 0
             THEN [err |-> ErrTimeout, payload |-> pl, body |-> NilBody, now |-> t]
             ELSE [err |-> NilErr, payload |-> newPl, body |-> NilBody, now |-> t + b]
    ELSE [err |-> NilErr, payload |-> pl, body |-> NilBody, now |-> t + b]

(* Variant: the caller-deadline test is Before instead of After. *)
handleMaybeRetryAnalytics_before(ctxD, serverD, b, t, pl) ==
    IF ctxD # NoTime /\ t + b < ctxD - b
    THEN [err |-> ErrContextDeadlineWouldBeExceeded, payload |-> pl, body |-> NilBody, now |-> t]
    ELSE IF serverD # NoTime
    THEN LET serverTimeout == serverD - (t + b)
             newPl == [pl EXCEPT !.timeout = DurationString(serverTimeout)]
         IN  IF serverTimeout < 0
             THEN [err |-> ErrTimeout, payload |-> pl, body |-> NilBody, now |-> t]
             ELSE [err |-> NilErr, payload |-> newPl, body |-> Marshal(newPl), now |-> t + b]
    ELSE [err |-> NilErr, payload |-> pl, body |-> NilBody, now |-> t + b]

(* Variant: the server deadline is looked at before the caller deadline. *)
handleMaybeRetryAnalytics_serverFirst(ctxD, serverD, b, t, pl) ==
    IF serverD # NoTime /\ serverD - (t + b) < 0
    THEN [err |-> ErrTimeout, payload |-> pl, body |-> NilBody, now |-> t]
    ELSE IF ctxD # NoTime /\ t + b > ctxD - b
    THEN [err |-> ErrContextDeadlineWouldBeExceeded, payload |-> pl, body |-> NilBody, now |-> t]
    ELSE IF serverD # NoTime
    THEN LET serverTimeout == serverD - (t + b)
             newPl == [pl EXCEPT !.timeout = DurationString(serverTimeout)]
         IN  [err |-> NilErr, payload |-> newPl, body |-> Marshal(newPl), now |-> t + b]
    ELSE [err |-> NilErr, payload |-> pl, body |-> NilBody, now |-> t + b]

(* Variant: the timeout is written into the payload before the server      *)
(* deadline is tested.                                                      *)
handleMaybeRetryAnalytics_early(ctxD, serverD, b, t, pl) ==
    IF ctxD # NoTime /\ t + b > ctxD - b
    THEN [err |-> ErrContextDeadlineWouldBeExceeded, payload |-> pl, body |-> NilBody, now |-> t]
    ELSE IF serverD # NoTime
    THEN LET serverTimeout == serverD - (t + b)
             newPl == [pl EXCEPT !.timeout = DurationString(serverTimeout)]
         IN  IF serverTimeout < 0
             THEN [err |-> ErrTimeout, payload |-> newPl, body |-> NilBody, now |-> t]
             ELSE [err |-> NilErr, payload |-> newPl, body |-> Marshal(newPl), now |-> t + b]
    ELSE [err |-> NilErr, payload |-> pl, body |-> NilBody, now |-> t + b]

(* Variant: the server deadline is not tested. *)
handleMaybeRetryAnalytics_noServerTest(ctxD, serverD, b, t, pl) ==
    IF ctxD # NoTime /\ t + b > ctxD - b
    THEN [err |-> ErrContextDeadlineWouldBeExceeded, payload |-> pl, body |-> NilBody, now |-> t]
    ELSE IF serverD # NoTime
    THEN LET serverTimeout == serverD - (t + b)
             newPl == [pl EXCEPT !.timeout = DurationString(serverTimeout)]
         IN  [err |-> NilErr, payload |-> newPl, body |-> Marshal(newPl), now |-> t + b]
    ELSE [err |-> NilErr, payload |-> pl, body |-> NilBody, now |-> t + b]

(* b is the delay drawn from the calculator, t is time.Now(). *)
handleMaybeRetryAnalytics(ctxD, serverD, b, t, pl) ==
    IF ctxD # NoTime /\ t + b > ctxD - b
    THEN [err |-> ErrContextDeadlineWouldBeExceeded, payload |-> pl, body |-> NilBody, now |-> t]
    ELSE IF serverD # NoTime
    THEN LET serverTimeout == serverD - (t + b)
             newPl == [pl EXCEPT !.timeout = DurationString(serverTimeout)]
         IN  IF serverTimeout < 0
             THEN [err |-> ErrTimeout, payload |-> pl, body |-> NilBody, now |-> t]
             ELSE [err |-> NilErr, payload |-> newPl, body |-> Marshal(newPl), now |-> t + b]
    ELSE [err |-> NilErr, payload |-> pl, body |-> NilBody, now |-> t + b]

(* -------------------------------- state -------------------------------- *)
VARIABLES
    pc,              \* position of the call: idle, lookup, loop, sent, sleep, done
    now,             \* wall clock
    closed,          \* Cluster.Close has returned
    queryTimeout,    \* httpQueryClient.defaultServerQueryTimeout
    MaxRetries,      \* QueryOptions.MaxRetries after merging (NoRetries: unset)
    ScanConsistency, \* QueryOptions.ScanConsistency after merging (NilOpt: unset)
    ctxDeadline,     \* ctx.Deadline() (NoTime: none)
    serverDeadline,
    payload,         \* opts.Payload
    body,
    addrs,
    idx,
    retries,
    lastCode,
    lastMessage,
    lastRootErr,
    attempts,        \* history: the requests dispatched so far and how each ended
    resolved,        \* history: what LookupHost returned
    closedAtCall,    \* history: Close had returned when ExecuteQuery was called
    wakeAt,          \* when the time.Sleep of the retry controller returns
    canceled,        \* ctx is cancelled and the call goes on
    result,          \* what Query returned
    input,           \* the arguments a function is applied to
    output,          \* what it returned
    reader,          \* a QueryRowReader handed to the caller
    calls,           \* history: the calls made on reader and what each returned
    leakTrackingEnabled,
    trackedRespsLock,   \* the goroutine that holds the mutex (Unlocked: none)
    trackedResps,
    resps,              \* the response bodies: how each is wrapped, its parent's state
    goroutines,         \* where each goroutine is in a function of package leakcheck
    accesses            \* history: the reads and writes of trackedResps made so far

leakVars == <<leakTrackingEnabled, trackedRespsLock, trackedResps, resps, goroutines, accesses>>

vars == <<pc, now, closed, queryTimeout, MaxRetries, ScanConsistency, ctxDeadline, serverDeadline,
          payload, body, addrs, idx, retries, lastCode, lastMessage, lastRootErr,
          attempts, resolved, closedAtCall, wakeAt, canceled, result,
          input, output, reader, calls, leakVars>>

(* what a call of ExecuteQuery leaves alone *)
side == <<input, output, reader, calls, leakVars>>

NoInput == [fn |-> "none"]
NoOutput == [kind |-> "none"]
NoReader == [kind |-> "none"]

(* package leakcheck before anything has run *)
Unlocked == 0
NoBody == 0
Goroutines == 1..MaxGoroutines
ResponseBodies == 1..MaxBodies
Idle == [at |-> "idle", body |-> NoBody, then |-> "none", n |-> 0, quiet |-> TRUE]
Unwrapped == [wrapped |-> "no", state |-> "open", closeCalled |-> FALSE]

LeakIdle ==
    /\ leakTrackingEnabled = FALSE
    /\ trackedRespsLock = Unlocked
    /\ trackedResps = <<>>
    /\ resps = [b \in ResponseBodies |-> Unwrapped]
    /\ goroutines = [g \in Goroutines |-> Idle]
    /\ accesses = {}

QueryTimeouts == {1}
Deadlines == {NoTime, 2}

(* The merged options of a call: NewQueryOptions(), and                     *)
(* NewQueryOptions().SetClientContextID("user").SetMaxRetries(0), and      *)
(* NewQueryOptions().SetScanConsistency(v) for a v that is none of the      *)
(* declared values.                                                         *)
NoID == ""
QueryOptionSets ==
    { [ClientContextID |-> NoID, MaxRetries |-> NoRetries, ScanConsistency |-> NilOpt],
      [ClientContextID |-> "user", MaxRetries |-> 0, ScanConsistency |-> "request_plus"],
      [ClientContextID |-> NoID, MaxRetries |-> NoRetries, ScanConsistency |-> "unknown"] }

NoPayload == [client_context_id |-> "", statement |-> "", timeout |-> DurationString(0)]
NoResult == [kind |-> "none", err |-> NilErr, reader |-> NoReader]

Init ==
    /\ pc = "idle"
    /\ now = 0
    /\ closed = FALSE
    /\ queryTimeout \in QueryTimeouts
    /\ MaxRetries = NoRetries
    /\ ScanConsistency = NilOpt
    /\ ctxDeadline = NoTime
    /\ serverDeadline = NoTime
    /\ payload = NoPayload
    /\ body = NilBody
    /\ addrs = <<>>
    /\ idx = 0
    /\ retries = 0
    /\ lastCode = 0
    /\ lastMessage = ""
    /\ lastRootErr = NilErr
    /\ attempts = <<>>
    /\ resolved = <<>>
    /\ closedAtCall = FALSE
    /\ wakeAt = NoTime
    /\ canceled = FALSE
    /\ result = NoResult
    /\ LeakIdle
    /\ input = NoInput
    /\ output = NoOutput
    /\ reader = NoReader
    /\ calls = <<>>

(* ------------------------------ environment ---------------------------- *)
UrlError(err) == [name |-> "Post", wraps |-> err]

(* When an operation bound to ctx can hand back something other than the    *)
(* deadline error; never, once ctx is cancelled. *)
ArrivalTimes ==
    IF canceled
    THEN {}
    ELSE { t \in now .. Min2(now + MaxStep, MaxTime) : ctxDeadline # NoTime => t <= ctxDeadline }

(* When ctx reports DeadlineExceeded to an operation blocked on it. *)
ExpiryTimes ==
    IF ~canceled /\ ctxDeadline # NoTime /\ Max2(now, ctxDeadline) <= MaxTime
    THEN {Max2(now, ctxDeadline)}
    ELSE {}

(* <<error, time>> for a failing operation bound to ctx. *)
IOFailures(errs) ==
    { <<e, t>> : e \in errs \cup {ContextCanceled}, t \in ArrivalTimes }
    \cup { <<ContextDeadlineExceeded, t>> : t \in ExpiryTimes }

(* The connect-done hook was not called: nothing was dialled. *)
NoConnect == [name |-> "no connect"]

(* <<err, connectDoneErr, time, connectDone>> for a failing innerClient.Do: *)
(* connectDone is the error the ConnectDone hook is called with, and        *)
(* connectDoneErr what the executor reads at "if connectDoneErr == nil".    *)
(* The hook runs on the dialing goroutine: a dial that ends before Do       *)
(* returns has written connectDoneErr, but after a cancelled dial Do        *)
(* returns without waiting for it and the unsynchronised read may or may    *)
(* not see the hook's write.  With ctx already cancelled Do returns at once *)
(* and nothing is dialled.                                                  *)
DoFailures ==
    (IF canceled THEN { <<UrlError(ContextCanceled), NilErr, now, NoConnect>> } ELSE {})
    \cup { <<UrlError(ErrConnReset), NilErr, t, NilErr>> : t \in ArrivalTimes }
    \cup { <<UrlError(ErrDial), ErrDial, t, ErrDial>> : t \in ArrivalTimes }
    \cup { <<UrlError(ContextCanceled), NilErr, t, NilErr>> : t \in ArrivalTimes }
    \cup { <<UrlError(ContextCanceled), c, t, ErrDialCanceled>> :
               c \in {NilErr, ErrDialCanceled}, t \in ArrivalTimes }
    \cup { <<UrlError(ContextDeadlineExceeded), NilErr, t, NilErr>> : t \in ExpiryTimes }
    \cup { <<UrlError(ContextDeadlineExceeded), c, t, ErrDialTimeout>> :
               c \in {NilErr, ErrDialTimeout}, t \in ExpiryTimes }

(* ------------------------------- actions ------------------------------- *)
callConfig == <<closed, queryTimeout, MaxRetries, ScanConsistency, ctxDeadline, serverDeadline, resolved,
                closedAtCall, side>>
config == <<callConfig, canceled>>
loopState == <<payload, body, addrs, retries, lastCode, lastMessage, lastRootErr>>

(* How the attempt in flight ended: the status and body received, or the    *)
(* error of Do and what the connect-done hook had recorded. *)
Outcome(o, statusCode, resp, err, connectDoneErr) ==
    attempts' = [attempts EXCEPT ![Len(attempts)] =
                    [@ EXCEPT !.outcome = o, !.status = statusCode, !.resp = resp,
                              !.err = err, !.connectDoneErr = connectDoneErr]]

(* How a failing Do ended: its error, what the ConnectDone hook was called  *)
(* with and what the executor read from connectDoneErr. *)
DoOutcome(o, err, connectDoneErr, connectDone) ==
    attempts' = [attempts EXCEPT ![Len(attempts)] =
                    [@ EXCEPT !.outcome = o, !.err = err,
                              !.connectDoneErr = connectDoneErr,
                              !.connectDone = connectDone]]

(* Variant: the head is dropped whatever the index. *)
RemoveAt_head(seq, i) == SubSeq(seq, 2, Len(seq))

RemoveAt(seq, i) == SubSeq(seq, 1, i - 1) \o SubSeq(seq, i + 1, Len(seq))

(* Cluster.Close -> httpClusterClient.Close -> Client.Close: closes idle    *)
(* connections and keeps no flag.  It touches nothing a call reads, so it   *)
(* is only interleaved before the call. *)
Close ==
    /\ pc = "idle"
    /\ ~closed
    /\ closed' = TRUE
    /\ UNCHANGED <<pc, now, queryTimeout, MaxRetries, ScanConsistency, ctxDeadline, serverDeadline,
                   payload, body, addrs, idx, retries, lastCode, lastMessage, lastRootErr,
                   attempts, resolved, closedAtCall, wakeAt, canceled, result, side>>

(* uuid.NewString() *)
NewUUID == "uuid"

(* Variant: the cluster's default timeout is used whatever ctx holds. *)
translateQueryOptions_defaultTimeout(ctxD, t) ==
    [statement |-> Statement,
     client_context_id |-> NoID,
     timeout |-> DurationString(queryTimeout)]

translateQueryOptions(ctxD, t) ==
    [statement |-> Statement,
     client_context_id |-> NoID,
     timeout |-> IF ctxD # NoTime
                 THEN DurationString((ctxD - t) + SafetyPad)
                 ELSE DurationString(queryTimeout)]

(* the switch of translateQueryOptions on the scan consistency has no case *)
(* for this value *)
UnknownScanConsistency(sc) == sc \notin {NilOpt, "not_bounded", "request_plus"}

(* Variant: an unknown scan consistency is passed over. *)
ExecuteQuery_anyScan(ctxD, opts) ==
    /\ pc = "idle"
    /\ ctxDeadline' = ctxD
    /\ MaxRetries' = opts.MaxRetries
    /\ ScanConsistency' = opts.ScanConsistency
    /\ closedAtCall' = closed
    /\ LET clientContextID == IF opts.ClientContextID = NoID
                              THEN NewUUID
                              ELSE opts.ClientContextID
           clientOpts == [translateQueryOptions(ctxD, now)
                            EXCEPT !.client_context_id = clientContextID]
       IN  /\ payload' = clientOpts
           /\ body' = Marshal(clientOpts)
           /\ serverDeadline' = now + ParseDuration(clientOpts.timeout)
           /\ pc' = "lookup"
           /\ UNCHANGED result
    /\ UNCHANGED <<now, closed, queryTimeout, addrs, idx, retries, lastCode, lastMessage,
                   lastRootErr, attempts, resolved, wakeAt, canceled, side>>

(* Cluster.ExecuteQuery / Scope.ExecuteQuery -> httpQueryClient.Query      *)
(* (translateQueryOptions, which may fail; client_context_id) ->            *)
(* Client.Query up to LookupHost. *)
ExecuteQuery(ctxD, opts) ==
    /\ pc = "idle"
    /\ ctxDeadline' = ctxD
    /\ MaxRetries' = opts.MaxRetries
    /\ ScanConsistency' = opts.ScanConsistency
    /\ closedAtCall' = closed
    /\ LET clientContextID == IF opts.ClientContextID = NoID
                              THEN NewUUID
                              ELSE opts.ClientContextID
           clientOpts == [translateQueryOptions(ctxD, now)
                            EXCEPT !.client_context_id = clientContextID]
       IN  IF UnknownScanConsistency(opts.ScanConsistency)
           THEN /\ result' = [kind |-> "error",
                              err |-> invalidArgumentError("ScanConsistency", "unknown value"),
                              reader |-> NoReader]
                /\ pc' = "done"
                /\ UNCHANGED <<payload, body, serverDeadline>>
           ELSE /\ payload' = clientOpts
                /\ body' = Marshal(clientOpts)
                /\ serverDeadline' = now + ParseDuration(clientOpts.timeout)
                /\ pc' = "lookup"
                /\ UNCHANGED result
    /\ UNCHANGED <<now, closed, queryTimeout, addrs, idx, retries, lastCode, lastMessage,
                   lastRootErr, attempts, resolved, wakeAt, canceled, side>>

(* addrs, err := c.resolver.LookupHost(ctx, c.host): n distinct addresses;  *)
(* none when the answers for the name hold no address record               *)
LookupHostOK(n, t) ==
    /\ pc = "lookup"
    /\ t \in ArrivalTimes
    /\ addrs' = [i \in 1..n |-> i]
    /\ resolved' = addrs'
    /\ now' = t
    /\ pc' = "loop"
    /\ UNCHANGED <<closed, queryTimeout, MaxRetries, ScanConsistency, ctxDeadline, serverDeadline, closedAtCall,
                   payload, body, idx, retries, lastCode, lastMessage, lastRootErr,
                   attempts, wakeAt, canceled, result, side>>

LookupHostFail(f) ==
    /\ pc = "lookup"
    /\ f \in IOFailures({ErrDNS})
    /\ result' = [kind |-> "error",
                  err |-> newAnalyticsError(LookupError(f[1]), Statement, Host, 0),
                  reader |-> NoReader]
    /\ now' = f[2]
    /\ pc' = "done"
    /\ UNCHANGED <<config, loopState, idx, attempts, wakeAt>>

(* the candidate list is empty *)
NoAddrs ==
    /\ pc = "loop"
    /\ Len(addrs) = 0
    /\ result' = [kind |-> "error",
                  err |-> withLastDetail(newAnalyticsError(lastRootErr, Statement, Host, 0),
                                         lastCode, lastMessage),
                  reader |-> NoReader]
    /\ pc' = "done"
    /\ UNCHANGED <<config, loopState, idx, attempts, now, wakeAt>>

(* The credential is a DynamicBasicAuthCredential whose provider hands     *)
(* out another username/password pair at each invocation: the n-th          *)
(* invocation returns pair n. *)
RECURSIVE CredentialCalls(_)
CredentialCalls(as) ==
    IF as = <<>> THEN 0
    ELSE CredentialCalls(SubSeq(as, 1, Len(as) - 1)) + Len(as[Len(as)].credentials)

CredentialProvider(n) == [Username |-> n, Password |-> n]

(* Variant: the pair of the first attempt is kept for the attempts after. *)
Dispatch_firstPair(i) ==
    /\ pc = "loop"
    /\ i \in 1..Len(addrs)
    /\ idx' = i
    /\ LET pair == CredentialProvider(CredentialCalls(attempts) + 1)
       IN  attempts' = Append(attempts,
                          [addr |-> addrs[i], body |-> body, at |-> now, outcome |-> "pending",
                           status |-> 0, resp |-> NoText, err |-> NilErr,
                           connectDoneErr |-> NilErr, connectDone |-> NoConnect,
                           credentials |-> IF attempts = <<>> THEN <<pair>> ELSE <<>>,
                           auth |-> IF attempts = <<>> THEN pair ELSE attempts[1].auth])
    /\ pc' = "sent"
    /\ UNCHANGED <<config, loopState, now, wakeAt, result>>

(* idx := rand.Intn(len(addrs)) ... username, password :=                   *)
(* opts.CredentialProvider(); req.SetBasicAuth(username, password) ...      *)
(* c.innerClient.Do(req) is called *)
Dispatch(i) ==
    /\ pc = "loop"
    /\ i \in 1..Len(addrs)
    /\ idx' = i
    /\ LET pair == CredentialProvider(CredentialCalls(attempts) + 1)
       IN  attempts' = Append(attempts,
                          [addr |-> addrs[i], body |-> body, at |-> now, outcome |-> "pending",
                           status |-> 0, resp |-> NoText, err |-> NilErr,
                           connectDoneErr |-> NilErr, connectDone |-> NoConnect,
                           credentials |-> <<pair>>,
                           auth |-> pair])
    /\ pc' = "sent"
    /\ UNCHANGED <<config, loopState, now, wakeAt, result>>

(* return nil, e *)
Fail(e, t) ==
    /\ result' = [kind |-> "error", err |-> e, reader |-> NoReader]
    /\ now' = t
    /\ pc' = "done"
    /\ UNCHANGED wakeAt

(* Variant: the error retained from the attempts before is handed back    *)
(* with the reader. *)
Succeed_lastErr(statusCode, peeked, t) ==
    /\ result' = [kind |-> "reader", err |-> lastRootErr,
                  reader |-> [kind |-> "reader", statusCode |-> statusCode, peeked |-> peeked]]
    /\ now' = t
    /\ pc' = "done"
    /\ UNCHANGED wakeAt

(* return &QueryRowReader{...}, nil *)
Succeed(statusCode, peeked, t) ==
    /\ result' = [kind |-> "reader", err |-> NilErr,
                  reader |-> [kind |-> "reader", statusCode |-> statusCode, peeked |-> peeked]]
    /\ now' = t
    /\ pc' = "done"
    /\ UNCHANGED wakeAt

(* handleMaybeRetryAnalytics enters time.Sleep(b) at t; body = newBody;     *)
(* retries++ *)
Continue(hm, t) ==
    /\ retries < RetryBound
    /\ hm.now <= MaxTime
    /\ payload' = hm.payload
    /\ body' = hm.body
    /\ retries' = retries + 1
    /\ now' = t
    /\ wakeAt' = hm.now
    /\ pc' = "sleep"
    /\ UNCHANGED result

(* the caller cancels ctx while the retry controller is in time.Sleep (a    *)
(* cancellation that arrives during a blocking call is that call's          *)
(* ContextCanceled outcome) *)
Cancel ==
    /\ pc = "sleep"
    /\ ~canceled
    /\ canceled' = TRUE
    /\ UNCHANGED <<pc, now, closed, queryTimeout, MaxRetries, ScanConsistency, ctxDeadline, serverDeadline,
                   payload, body, addrs, idx, retries, lastCode, lastMessage, lastRootErr,
                   attempts, resolved, closedAtCall, wakeAt, result, side>>

(* time.Sleep(b) returns; continue *)
Wake ==
    /\ pc = "sleep"
    /\ now' = wakeAt
    /\ pc' = "loop"
    /\ UNCHANGED <<config, loopState, idx, attempts, wakeAt, result>>

(* Variant: only cancellation is looked for. *)
IsFatalTransport_cancelOnly(err, connectDoneErr) ==
    /\ connectDoneErr = NilErr
    /\ ErrorsIs(err, ContextCanceled)

(* the connect-done hook saw no error and err is the caller's cancellation or deadline *)
IsFatalTransport(err, connectDoneErr) ==
    /\ connectDoneErr = NilErr
    /\ \/ ErrorsIs(err, ContextCanceled)
       \/ ErrorsIs(err, ContextDeadlineExceeded)

(* Variant: the error of the retry controller (nil) is retained. *)
TransportRootErr_nil(err, connectDoneErr) == NilErr

(* the value lastRootErr takes after a retriable transport failure *)
TransportRootErr(err, connectDoneErr) ==
    IF connectDoneErr = NilErr
    THEN newObfuscateErrorWrapper("failed to send request", err)
    ELSE connectDoneErr

(* resp, err := c.innerClient.Do(req); err != nil *)
TransportError(f, b) ==
    /\ pc = "sent"
    /\ f \in DoFailures
    /\ b \in analyticsExponentialBackoffWithJitter(retries)
    /\ LET err == f[1]
           connectDoneErr == f[2]
           t == f[3]
           hm == handleMaybeRetryAnalytics(ctxDeadline, serverDeadline, b, t, payload)
       IN  IF IsFatalTransport(err, connectDoneErr)
           THEN /\ Fail(newAnalyticsError(err, Statement, Host, 0), t)
                /\ DoOutcome("transport-fatal", err, connectDoneErr, f[4])
                /\ UNCHANGED <<config, loopState, idx>>
           ELSE IF hm.err # NilErr
           THEN /\ Fail(withLastDetail(newAnalyticsError(hm.err, Statement, Host, 0),
                                       lastCode, lastMessage), t)
                /\ DoOutcome("transport-exhausted", err, connectDoneErr, f[4])
                /\ payload' = hm.payload
                /\ UNCHANGED <<config, body, addrs, retries, lastCode, lastMessage,
                               lastRootErr, idx>>
           ELSE /\ Continue(hm, t)
                /\ DoOutcome("transport-retry", err, connectDoneErr, f[4])
                /\ addrs' = RemoveAt(addrs, idx)
                /\ lastRootErr' = TransportRootErr(err, connectDoneErr)
                /\ canceled' = (canceled \/ ErrorsIs(err, ContextCanceled))
                /\ UNCHANGED <<callConfig, idx, lastCode, lastMessage>>

(* cErr is not nil: first, retriable := isAnalyticsErrorRetriable(cErr) ... *)
HandleServerError(cErr, respBody, statusCode, t, b) ==
    LET r == isAnalyticsErrorRetriable(cErr)
        newCode == IF r.hasFirst THEN r.first.Code ELSE lastCode
        newMessage == IF r.hasFirst THEN r.first.Message ELSE lastMessage
        hm == handleMaybeRetryAnalytics(ctxDeadline, serverDeadline, b, t, payload)
    IN  IF ~r.retriable
        THEN /\ Fail(cErr, t)
             /\ Outcome("server-fatal", statusCode, respBody, NilErr, NilErr)
             /\ UNCHANGED <<config, loopState, idx>>
        ELSE /\ lastRootErr' = cErr
             /\ lastCode' = newCode
             /\ lastMessage' = newMessage
             /\ UNCHANGED <<config, idx, addrs>>
             /\ IF hm.err # NilErr
                THEN /\ Fail(withLastDetail(
                                withErrorText(
                                    withErrors(newAnalyticsError(hm.err, Statement, Host, statusCode),
                                               cErr.Errors),
                                    respBody),
                                newCode, newMessage), t)
                     /\ Outcome("server-exhausted", statusCode, respBody, NilErr, NilErr)
                     /\ payload' = hm.payload
                     /\ UNCHANGED <<body, retries>>
                ELSE /\ Continue(hm, t)
                     /\ Outcome("server-retry", statusCode, respBody, NilErr, NilErr)

(* resp.StatusCode < 200 || resp.StatusCode >= 300, io.ReadAll fails *)
ReadBodyFail(statusCode, f) ==
    /\ pc = "sent"
    /\ statusCode \in Statuses
    /\ f \in IOFailures({ErrBodyRead})
    /\ Fail(newAnalyticsError(newObfuscateErrorWrapper("failed to read response body", f[1]),
                              Statement, Host, statusCode), f[2])
    /\ Outcome("read-failed", statusCode, NoText, NilErr, NilErr)
    /\ UNCHANGED <<config, loopState, idx>>

(* resp.StatusCode < 200 || resp.StatusCode >= 300, body read *)
Non2xx(statusCode, respBody, t, b) ==
    /\ pc = "sent"
    /\ statusCode \in Statuses
    /\ respBody \in Bodies
    /\ t \in ArrivalTimes
    /\ b \in analyticsExponentialBackoffWithJitter(retries)
    /\ LET cErr == parseAnalyticsErrorResponse(respBody, statusCode, lastCode, lastMessage)
       IN  IF cErr # NilErr
           THEN HandleServerError(cErr, respBody, statusCode, t, b)
           ELSE /\ Fail(withLastDetail(
                           withErrorText(
                               newAnalyticsError(ErrNoErrorsInBody, Statement, Host, statusCode),
                               respBody),
                           lastCode, lastMessage), t)
                /\ Outcome("no-errors", statusCode, respBody, NilErr, NilErr)
                /\ UNCHANGED <<config, loopState, idx>>

(* 2xx, newQueryStreamer fails; the error wrapped is readErr of the         *)
(* io.ReadAll that follows, nil when that read succeeds; respBody is what   *)
(* that read returns. *)
StreamerOpenFail(respBody, readErr, t) ==
    /\ pc = "sent"
    /\ respBody \in Bodies
    /\ respBody.shape \in {"empty", "badlist"}
    /\ readErr \in {NilErr, ErrBodyRead}
    /\ t \in ArrivalTimes
    /\ Fail(withLastDetail(
               withErrorText(
                   newAnalyticsError(
                       newObfuscateErrorWrapper("failed to parse success response body", readErr),
                       Statement, Host, 200),
                   respBody),
               lastCode, lastMessage), t)
    /\ Outcome("streamer-failed", 200, NoText, NilErr, NilErr)
    /\ UNCHANGED <<config, loopState, idx>>

(* 2xx, peeked := streamer.NextRow() is a row *)
RowPeeked(t) ==
    /\ pc = "sent"
    /\ t \in ArrivalTimes
    /\ Succeed(200, "row", t)
    /\ Outcome("rows", 200, NoText, NilErr, NilErr)
    /\ UNCHANGED <<config, loopState, idx>>

(* 2xx, no row peeked and streamer.Err() or streamer.MetaData() fails *)
NoRowStreamFail(f) ==
    /\ pc = "sent"
    /\ f \in IOFailures({ErrBodyRead, ErrJSON})
    /\ Fail(newAnalyticsError(f[1], Statement, Host, 200), f[2])
    /\ Outcome("stream-failed", 200, NoText, NilErr, NilErr)
    /\ UNCHANGED <<config, loopState, idx>>

(* 2xx, no row peeked, the trailer is meta *)
NoRowTrailer(meta, t, b) ==
    /\ pc = "sent"
    /\ meta \in Bodies
    /\ meta.shape # "empty"
    /\ t \in ArrivalTimes
    /\ b \in analyticsExponentialBackoffWithJitter(retries)
    /\ LET cErr == parseAnalyticsErrorResponse(meta, 200, lastCode, lastMessage)
       IN  IF cErr # NilErr
           THEN HandleServerError(cErr, meta, 200, t, b)
           ELSE /\ Succeed(200, "nil", t)
                /\ Outcome("no-rows", 200, meta, NilErr, NilErr)
                /\ UNCHANGED <<config, loopState, idx>>

(* the steps of a call under way that need nothing from the caller *)
CallProgress ==
    \/ Wake
    \/ \E n \in 0..MaxAddrs, t \in ArrivalTimes : LookupHostOK(n, t)
    \/ \E f \in IOFailures({ErrDNS}) : LookupHostFail(f)
    \/ NoAddrs
    \/ \E i \in 1..Len(addrs) : Dispatch(i)
    \/ \E f \in DoFailures, b \in analyticsExponentialBackoffWithJitter(retries) :
          TransportError(f, b)
    \/ \E st \in Statuses, f \in IOFailures({ErrBodyRead}) : ReadBodyFail(st, f)
    \/ \E st \in Statuses, rb \in Bodies, t \in ArrivalTimes,
          b \in analyticsExponentialBackoffWithJitter(retries) : Non2xx(st, rb, t, b)
    \/ \E rb \in Bodies, e \in {NilErr, ErrBodyRead}, t \in ArrivalTimes :
          StreamerOpenFail(rb, e, t)
    \/ \E t \in ArrivalTimes : RowPeeked(t)
    \/ \E f \in IOFailures({ErrBodyRead, ErrJSON}) : NoRowStreamFail(f)
    \/ \E m \in Bodies, t \in ArrivalTimes,
          b \in analyticsExponentialBackoffWithJitter(retries) : NoRowTrailer(m, t, b)

Next ==
    \/ Close
    \/ Cancel
    \/ \E ctxD \in Deadlines, opts \in QueryOptionSets : ExecuteQuery(ctxD, opts)
    \/ CallProgress

Spec == Init /\ [][Next]_vars

(* Time advances and every blocking call returns: a call under way takes    *)
(* its next step.                                                           *)
LiveSpec == Init /\ [][Next]_vars /\ WF_vars(CallProgress)

(* --------------------- functions applied to inputs --------------------- *)
callVars == <<pc, now, closed, queryTimeout, MaxRetries, ScanConsistency, ctxDeadline, serverDeadline,
              payload, body, addrs, idx, retries, lastCode, lastMessage, lastRootErr,
              attempts, resolved, closedAtCall, wakeAt, canceled, result>>

(* no call of ExecuteQuery is under way *)
CallIdle ==
    /\ pc = "idle"
    /\ now = 0
    /\ closed = FALSE
    /\ queryTimeout \in QueryTimeouts
    /\ MaxRetries = NoRetries
    /\ ScanConsistency = NilOpt
    /\ ctxDeadline = NoTime
    /\ serverDeadline = NoTime
    /\ payload = NoPayload
    /\ body = NilBody
    /\ addrs = <<>>
    /\ idx = 0
    /\ retries = 0
    /\ lastCode = 0
    /\ lastMessage = ""
    /\ lastRootErr = NilErr
    /\ attempts = <<>>
    /\ resolved = <<>>
    /\ closedAtCall = FALSE
    /\ wakeAt = NoTime
    /\ canceled = FALSE
    /\ result = NoResult
    /\ LeakIdle

CalcInputs ==
    { [fn |-> "calc", retryAttempts |-> n, r |-> r] : n \in 0..MaxAttempts, r \in 0..(Draws - 1) }

(* The QueryErrors Client.Query and QueryRowReader.Err can return: the     *)
(* classifier's error for a response (any list of descriptions for a       *)
(* status other than 401, none for 401 and for a bare 503), and the error  *)
(* of a refused retry carrying the retriable descriptions of the last      *)
(* response. *)
TranslateDescs ==
    { [Code |-> c, Message |-> m, Retry |-> b] :
        c \in {20000, 21002, 23000, 24000}, m \in {"msg"}, b \in BOOLEAN }

TranslateLists == UNION { [1..n -> TranslateDescs] : n \in 1..MaxErrs }

TranslateInputs ==
    { [fn |-> "translateClientError", from |-> "response",
       err |-> parseAnalyticsErrorResponse([shape |-> "list", errors |-> l], 500, 0, "")] :
          l \in TranslateLists }
    \cup { [fn |-> "translateClientError", from |-> "response",
            err |-> parseAnalyticsErrorResponse(NoText, st, 0, "")] : st \in {401, 503} }
    \cup { [fn |-> "translateClientError", from |-> "refused",
            err |-> withLastDetail(
                        withErrorText(
                            withErrors(newAnalyticsError(e, Statement, Host, 500), l),
                            [shape |-> "list", errors |-> l]),
                        l[1].Code, l[1].Message)] :
               e \in {ErrTimeout, ErrContextDeadlineWouldBeExceeded},
               l \in { x \in TranslateLists : ~HasNonRetriable(x) } }

(* map[string]interface{} and the writes made to it *)
EmptyMap == [k \in {} |-> ""]
Put(mp, k, v) == [x \in DOMAIN mp \cup {k} |-> IF x = k THEN v ELSE mp[x]]
PutAll(mp, from) ==
    [x \in DOMAIN mp \cup DOMAIN from |-> IF x \in DOMAIN from THEN from[x] ELSE mp[x]]


(* the options' maps are given by their key sets (an empty set for a nil   *)
(* map); every raw entry has the value "raw" *)
RawMap(keys) == [k \in keys |-> "raw"]

(* a named-parameter key gets the $ it lacks *)
DollarKey(key) == IF key = "name" THEN "$name" ELSE key

(* Variant: the remaining time is sent without the pad. *)
execOpts_nopad(opts, ctxD, t) ==
    LET m1 == IF opts.PositionalParameters # NilOpt
              THEN Put(EmptyMap, "args", opts.PositionalParameters)
              ELSE EmptyMap
        m2 == IF opts.NamedParameters # {}
              THEN PutAll(m1, [k \in { DollarKey(x) : x \in opts.NamedParameters } |->
                                  "named"])
              ELSE m1
        m3 == IF opts.Raw # {} THEN PutAll(m2, RawMap(opts.Raw)) ELSE m2
        m4 == IF opts.ScanConsistency # NilOpt
              THEN Put(m3, "scan_consistency", opts.ScanConsistency)
              ELSE m3
        m5 == IF opts.ReadOnly # NilOpt THEN Put(m4, "readonly", opts.ReadOnly) ELSE m4
        m6 == Put(m5, "timeout",
                  IF ctxD # NoTime
                  THEN DurationString(ctxD - t)
                  ELSE DurationString(queryTimeout))
        m7 == Put(m6, "statement", Statement)
    IN  IF opts.ScanConsistency \notin {NilOpt, "not_bounded", "request_plus"}
        THEN [err |-> invalidArgumentError("ScanConsistency", "unknown value"),
              Payload |-> EmptyMap]
        ELSE [err |-> NilErr, Payload |-> m7]

(* Variant: the raw entries are written first. *)
execOpts_rawFirst(opts, ctxD, t) ==
    LET m0 == IF opts.Raw # {} THEN PutAll(EmptyMap, RawMap(opts.Raw)) ELSE EmptyMap
        m1 == IF opts.PositionalParameters # NilOpt
              THEN Put(m0, "args", opts.PositionalParameters)
              ELSE m0
        m2 == IF opts.NamedParameters # {}
              THEN PutAll(m1, [k \in { DollarKey(x) : x \in opts.NamedParameters } |->
                                  "named"])
              ELSE m1
        m3 == m2
        m4 == IF opts.ScanConsistency # NilOpt
              THEN Put(m3, "scan_consistency", opts.ScanConsistency)
              ELSE m3
        m5 == IF opts.ReadOnly # NilOpt THEN Put(m4, "readonly", opts.ReadOnly) ELSE m4
        m6 == Put(m5, "timeout",
                  IF ctxD # NoTime
                  THEN DurationString((ctxD - t) + SafetyPad)
                  ELSE DurationString(queryTimeout))
        m7 == Put(m6, "statement", Statement)
    IN  IF opts.ScanConsistency \notin {NilOpt, "not_bounded", "request_plus"}
        THEN [err |-> invalidArgumentError("ScanConsistency", "unknown value"),
              Payload |-> EmptyMap]
        ELSE [err |-> NilErr, Payload |-> m7]

(* translateQueryOptions with every option: the map it builds, write by    *)
(* write *)
execOpts(opts, ctxD, t) ==
    LET m1 == IF opts.PositionalParameters # NilOpt
              THEN Put(EmptyMap, "args", opts.PositionalParameters)
              ELSE EmptyMap
        m2 == IF opts.NamedParameters # {}
              THEN PutAll(m1, [k \in { DollarKey(x) : x \in opts.NamedParameters } |->
                                  "named"])
              ELSE m1
        m3 == IF opts.Raw # {} THEN PutAll(m2, RawMap(opts.Raw)) ELSE m2
        m4 == IF opts.ScanConsistency # NilOpt
              THEN Put(m3, "scan_consistency", opts.ScanConsistency)
              ELSE m3
        m5 == IF opts.ReadOnly # NilOpt THEN Put(m4, "readonly", opts.ReadOnly) ELSE m4
        m6 == Put(m5, "timeout",
                  IF ctxD # NoTime
                  THEN DurationString((ctxD - t) + SafetyPad)
                  ELSE DurationString(queryTimeout))
        m7 == Put(m6, "statement", Statement)
    IN  IF opts.ScanConsistency \notin {NilOpt, "not_bounded", "request_plus"}
        THEN [err |-> invalidArgumentError("ScanConsistency", "unknown value"),
              Payload |-> EmptyMap]
        ELSE [err |-> NilErr, Payload |-> m7]

QueryContext == "default:db.scope"

(* httpQueryClient.Query up to the call of Client.Query: the payload handed *)
(* to the executor *)
clientOpts(opts, namespace, ctxD, t) ==
    LET tr == execOpts(opts, ctxD, t)
        p1 == IF namespace # NilOpt
              THEN Put(tr.Payload, "query_context", QueryContext)
              ELSE tr.Payload
        clientContextID == IF opts.ClientContextID = NilOpt THEN NewUUID ELSE opts.ClientContextID
    IN  IF tr.err # NilErr
        THEN tr
        ELSE [err |-> NilErr, Payload |-> Put(p1, "client_context_id", clientContextID)]

PayloadKeys ==
    {"args", "$name", "scan_consistency", "readonly", "timeout", "statement",
     "query_context", "client_context_id", "extra"}

RawKeySets == { x \in SUBSET PayloadKeys : Cardinality(x) <= MaxRaw }

(* The ctx argument of ExecuteQuery: nil, or a context with or without a    *)
(* deadline. *)
Background == [isNil |-> FALSE, deadline |-> NoTime]
Contexts ==
    {[isNil |-> TRUE, deadline |-> NoTime], Background}
    \cup { [isNil |-> FALSE, deadline |-> d] : d \in Deadlines \ {NoTime} }

(* if ctx == nil { ctx = context.Background() } *)
CtxOrBackground(ctx) == IF ctx.isNil THEN Background ELSE ctx

(* when ExecuteQuery is called *)
CallTimes == {0, 1}

PayloadInputs ==
    { [fn |-> "clientOpts",
       opts |-> [PositionalParameters |-> pp, NamedParameters |-> np, Raw |-> raw,
                 ScanConsistency |-> sc, ReadOnly |-> ro, ClientContextID |-> id],
       namespace |-> ns, ctx |-> cx, at |-> t0] :
          cx \in Contexts, t0 \in CallTimes,
          pp \in {NilOpt, "positional"},
          np \in SUBSET {"name"},
          raw \in RawKeySets,
          sc \in {NilOpt, "not_bounded", "unknown"},
          ro \in {NilOpt, "true"},
          id \in {NilOpt, "user"},
          ns \in {NilOpt, "scope"} }

(* ------------------------- cluster construction ------------------------ *)
(* Text that is parsed is a sequence of one-character strings.              *)
Letters == {"h", "t", "p", "s", "c", "b", "l", "x", "H", "T", "P"}
Digits == {"0", "1", "8"}

DigitValue(c) == IF c = "0" THEN 0 ELSE IF c = "1" THEN 1 ELSE 8

ToLower(c) == IF c = "H" THEN "h" ELSE IF c = "T" THEN "t" ELSE IF c = "P" THEN "p" ELSE c
LowerString(str) == [i \in 1..Len(str) |-> ToLower(str[i])]

(* strings.Index and strings.LastIndex of a character, counted from 1;      *)
(* 0 when it does not occur *)
Index(str, c) ==
    IF \E i \in 1..Len(str) : str[i] = c
    THEN CHOOSE i \in 1..Len(str) : str[i] = c /\ \A j \in 1..(i - 1) : str[j] # c
    ELSE 0

LastIndex(str, c) ==
    IF \E i \in 1..Len(str) : str[i] = c
    THEN CHOOSE i \in 1..Len(str) : str[i] = c /\ \A j \in (i + 1)..Len(str) : str[j] # c
    ELSE 0

HasPrefix(str, prefix) ==
    Len(str) >= Len(prefix) /\ SubSeq(str, 1, Len(prefix)) = prefix

AllDigits(str) == \A i \in 1..Len(str) : str[i] \in Digits

(* strconv.Atoi of a string of digits *)
RECURSIVE Atoi(_)
Atoi(str) ==
    IF str = <<>> THEN 0
    ELSE 10 * Atoi(SubSeq(str, 1, Len(str) - 1)) + DigitValue(str[Len(str)])

ErrMissingScheme == [name |-> "missing protocol scheme"]
ErrColonInFirstSegment == [name |-> "first path segment in URL cannot contain colon"]
ErrInvalidPort == [name |-> "invalid port after host"]

(* net/url getScheme: a scheme is letters, then letters, digits, + - . up   *)
(* to the first colon *)
RECURSIVE getScheme(_, _)
getScheme(rawURL, i) ==
    IF i > Len(rawURL)
    THEN [err |-> NilErr, scheme |-> <<>>, rest |-> rawURL]
    ELSE IF rawURL[i] \in Letters
    THEN getScheme(rawURL, i + 1)
    ELSE IF rawURL[i] \in Digits \cup {"+", "-", "."}
    THEN IF i = 1
         THEN [err |-> NilErr, scheme |-> <<>>, rest |-> rawURL]
         ELSE getScheme(rawURL, i + 1)
    ELSE IF rawURL[i] = ":"
    THEN IF i = 1
         THEN [err |-> ErrMissingScheme, scheme |-> <<>>, rest |-> <<>>]
         ELSE [err |-> NilErr, scheme |-> SubSeq(rawURL, 1, i - 1),
               rest |-> SubSeq(rawURL, i + 1, Len(rawURL))]
    ELSE [err |-> NilErr, scheme |-> <<>>, rest |-> rawURL]

(* net/url validOptionalPort *)
validOptionalPort(port) ==
    \/ port = <<>>
    \/ /\ port[1] = ":"
       /\ AllDigits(SubSeq(port, 2, Len(port)))

(* url.Parse of an endpoint without query, fragment, user info or IPv6      *)
(* literal: the scheme (lower-cased) and the host of the URL, or the error  *)
url_Parse(rawURL) ==
    LET gs == getScheme(rawURL, 1)
        scheme == LowerString(gs.scheme)
        rest == gs.rest
        slash == Index(rest, "/")
        segment == IF slash = 0 THEN rest ELSE SubSeq(rest, 1, slash - 1)
        hasAuthority == /\ scheme # <<>> \/ ~HasPrefix(rest, <<"/", "/", "/">>)
                        /\ HasPrefix(rest, <<"/", "/">>)
        tail == SubSeq(rest, 3, Len(rest))
        cut == Index(tail, "/")
        authority == IF cut = 0 THEN tail ELSE SubSeq(tail, 1, cut - 1)
        colon == LastIndex(authority, ":")
        failed(e) == [err |-> [name |-> "parse", wraps |-> e], Scheme |-> <<>>, Host |-> <<>>]
    IN  IF gs.err # NilErr THEN failed(gs.err)
        ELSE IF ~HasPrefix(rest, <<"/">>) /\ scheme # <<>>
        THEN [err |-> NilErr, Scheme |-> scheme, Host |-> <<>>]
        ELSE IF ~HasPrefix(rest, <<"/">>) /\ Index(segment, ":") # 0
        THEN failed(ErrColonInFirstSegment)
        ELSE IF /\ hasAuthority
                /\ colon # 0
                /\ ~validOptionalPort(SubSeq(authority, colon, Len(authority)))
        THEN failed(ErrInvalidPort)
        ELSE [err |-> NilErr, Scheme |-> scheme,
              Host |-> IF hasAuthority THEN authority ELSE <<>>]

(* URL.Port and URL.Hostname *)
URL_Port(u) ==
    LET colon == LastIndex(u.Host, ":")
    IN  IF colon # 0 /\ validOptionalPort(SubSeq(u.Host, colon, Len(u.Host)))
        THEN SubSeq(u.Host, colon + 1, Len(u.Host))
        ELSE <<>>

URL_Hostname(u) ==
    LET colon == LastIndex(u.Host, ":")
    IN  IF colon # 0 /\ validOptionalPort(SubSeq(u.Host, colon, Len(u.Host)))
        THEN SubSeq(u.Host, 1, colon - 1)
        ELSE u.Host

ErrBadDuration == [name |-> "time: invalid duration"]
ErrBadBool == [name |-> "strconv.ParseBool: invalid syntax"]
ErrReadFile == [name |-> "open: no such file or directory"]

(* time.ParseDuration of a text with one number and one unit, in ticks:     *)
(* "0" alone is zero, a number needs a unit, the unit must be known         *)
time_ParseDuration(text) ==
    LET n == IF \E i \in 1..Len(text) : text[i] \notin Digits
             THEN (CHOOSE i \in 1..Len(text) :
                      text[i] \notin Digits /\ \A j \in 1..(i - 1) : text[j] \in Digits) - 1
             ELSE Len(text)
        number == SubSeq(text, 1, n)
        unit == SubSeq(text, n + 1, Len(text))
    IN  IF text = <<"0">> THEN [err |-> NilErr, d |-> 0]
        ELSE IF text = <<>> \/ n = 0 THEN [err |-> ErrBadDuration, d |-> 0]
        ELSE IF unit = <<"s">> THEN [err |-> NilErr, d |-> Atoi(number) * 10]
        ELSE IF unit = <<"m">> THEN [err |-> NilErr, d |-> Atoi(number) * 600]
        ELSE [err |-> ErrBadDuration, d |-> 0]

(* strconv.ParseBool *)
strconv_ParseBool(str) ==
    IF str \in {"1", "t", "T", "TRUE", "true", "True"} THEN [err |-> NilErr, val |-> TRUE]
    ELSE IF str \in {"0", "f", "F", "FALSE", "false", "False"} THEN [err |-> NilErr, val |-> FALSE]
    ELSE [err |-> ErrBadBool, val |-> FALSE]

NilDuration == -1
NilCluster == [isNil |-> TRUE]
http == <<"h", "t", "t", "p">>
https == <<"h", "t", "t", "p", "s">>

(* newClusterClient -> newHTTPClusterClient: reads the PEM file when one is *)
(* named; opens no connection *)
newClusterClient(opts) ==
    IF opts.TrustOnlyPemFile = "missing.pem"
    THEN [err |-> [name |-> "failed to read pem file", wraps |-> ErrReadFile],
          cluster |-> NilCluster, io |-> <<"ReadFile">>]
    ELSE [err |-> NilErr,
          cluster |-> [isNil |-> FALSE, Scheme |-> opts.Scheme, Address |-> opts.Address,
                       ConnectTimeout |-> opts.ConnectTimeout,
                       ServerQueryTimeout |-> opts.ServerQueryTimeout],
          io |-> IF opts.TrustOnlyPemFile # NilOpt THEN <<"ReadFile">> ELSE <<>>]

(* Variant: an endpoint without a port gets 443 whatever the scheme. *)
NewCluster_port443(httpEndpoint, query, credential, opts) ==
    LET connSpec == url_Parse(httpEndpoint)
        portText == URL_Port(connSpec)
        port == IF portText = <<>> THEN 443 ELSE Atoi(portText)
        addr == [Host |-> URL_Hostname(connSpec), Port |-> port]
        failed(e) == [err |-> e, cluster |-> NilCluster, io |-> <<>>]
    IN  IF connSpec.err # NilErr THEN failed(connSpec.err)
        ELSE IF connSpec.Scheme # https /\ connSpec.Scheme # http
        THEN failed(invalidArgumentError("scheme", "only http and https schemes are supported"))
        ELSE newClusterClient([Scheme |-> connSpec.Scheme, Address |-> addr,
                               ConnectTimeout |-> 100, ServerQueryTimeout |-> 6000,
                               TrustOnlyPemFile |-> NilOpt])

(* NewCluster: query is the parsed query string of the endpoint (a map      *)
(* from the names given to their values), httpEndpoint the part before it   *)
NewCluster(httpEndpoint, query, credential, opts) ==
    LET connSpec == url_Parse(httpEndpoint)
        portText == URL_Port(connSpec)
        port == IF portText # <<>> THEN Atoi(portText)
                ELSE IF connSpec.Scheme = https THEN 443
                ELSE IF connSpec.Scheme = http THEN 80
                ELSE 0
        addr == [Host |-> URL_Hostname(connSpec), Port |-> port]
        connect0 == IF opts.ConnectTimeout # NilDuration THEN opts.ConnectTimeout ELSE 100
        query0 == IF opts.QueryTimeout # NilDuration THEN opts.QueryTimeout ELSE 6000
        connectQ == IF "timeout.connect_timeout" \in DOMAIN query
                    THEN time_ParseDuration(query["timeout.connect_timeout"])
                    ELSE [err |-> NilErr, d |-> connect0]
        queryQ == IF "timeout.query_timeout" \in DOMAIN query
                  THEN time_ParseDuration(query["timeout.query_timeout"])
                  ELSE [err |-> NilErr, d |-> query0]
        trustOnly == IF "security.trust_only_pem_file" \in DOMAIN query
                     THEN query["security.trust_only_pem_file"]
                     ELSE NilOpt
        verify == IF "security.disable_server_certificate_verification" \in DOMAIN query
                  THEN strconv_ParseBool(query["security.disable_server_certificate_verification"])
                  ELSE [err |-> NilErr, val |-> FALSE]
        failed(e) == [err |-> e, cluster |-> NilCluster, io |-> <<>>]
    IN  IF connSpec.err # NilErr THEN failed(connSpec.err)
        ELSE IF connSpec.Scheme # https /\ connSpec.Scheme # http
        THEN failed(invalidArgumentError("scheme", "only http and https schemes are supported"))
        ELSE IF credential = NilOpt
        THEN failed(invalidArgumentError("Credential", "cannot be nil"))
        ELSE IF connectQ.err # NilErr
        THEN failed(invalidArgumentError("timeout.connect_timeout", connectQ.err.name))
        ELSE IF queryQ.err # NilErr
        THEN failed(invalidArgumentError("timeout.query_timeout", queryQ.err.name))
        ELSE IF verify.err # NilErr
        THEN failed(invalidArgumentError("disable_server_certificate_verification",
                                         verify.err.name))
        ELSE IF connectQ.d = 0
        THEN failed(invalidArgumentError("ConnectTimeout", "must be greater than 0"))
        ELSE IF queryQ.d = 0
        THEN failed(invalidArgumentError("QueryTimeout", "must be greater than 0"))
        ELSE newClusterClient([Scheme |-> connSpec.Scheme, Address |-> addr,
                               ConnectTimeout |-> connectQ.d,
                               ServerQueryTimeout |-> queryQ.d,
                               TrustOnlyPemFile |-> trustOnly])

(* endpoints: a scheme or none, a separator, a host, a port or none *)
EndpointSchemes ==
    { <<>>, http, https, <<"H", "T", "T", "P">>, <<"c", "b">>, <<"1", "h">> }
EndpointSeparators == { <<":", "/", "/">>, <<"/", "/">>, <<":">>, <<>> }
EndpointHosts == { <<"l">>, <<"1", ".", "1">> }
EndpointPorts == { <<>>, <<":">>, <<":", "8">>, <<":", "x">> }
Endpoints ==
    { sc \o sep \o h \o pt :
        sc \in EndpointSchemes, sep \in EndpointSeparators,
        h \in EndpointHosts, pt \in EndpointPorts }

DurationTexts == { <<"0">>, <<"1", "s">>, <<"1">>, <<"x">> }
BoolTexts == {"true", "yes"}
PemFiles == {"ok.pem", "missing.pem"}

(* the query strings: each option given or not *)
OptionalEntry(name, values) == {EmptyMap} \cup { [k \in {name} |-> v] : v \in values }
QueryStrings ==
    { PutAll(PutAll(PutAll(a, b), c), d) :
        a \in OptionalEntry("timeout.connect_timeout", DurationTexts),
        b \in OptionalEntry("timeout.query_timeout", DurationTexts),
        c \in OptionalEntry("security.disable_server_certificate_verification", BoolTexts),
        d \in OptionalEntry("security.trust_only_pem_file", PemFiles) }

DefaultClusterOptions == [ConnectTimeout |-> NilDuration, QueryTimeout |-> NilDuration]
ClusterOptionSets ==
    { [ConnectTimeout |-> c, QueryTimeout |-> q] : c, q \in {NilDuration, 0, 5} }

NewClusterInputs ==
    { [fn |-> "NewCluster", httpEndpoint |-> e, query |-> EmptyMap,
       credential |-> "basic", opts |-> DefaultClusterOptions] : e \in Endpoints }
    \cup { [fn |-> "NewCluster", httpEndpoint |-> e, query |-> q,
            credential |-> cr, opts |-> o] :
               e \in { http \o <<":", "/", "/", "l">>, <<"c", "b", ":", "/", "/", "l">> },
               q \in QueryStrings, cr \in {NilOpt, "basic"}, o \in ClusterOptionSets }

(* Retry decisions: the arguments of handleMaybeRetryAnalytics and the      *)
(* instant time.Now() at which it runs.                                     *)
Instants == {NoTime} \cup (1..MaxInstant)
Backoffs == {MinBackoff, 2 * MinBackoff}
DecisionPayloads ==
    { [client_context_id |-> id, statement |-> Statement, timeout |-> DurationString(d)] :
        id \in {"uuid", "user"}, d \in {MaxInstant} }

DecisionInputs ==
    { [fn |-> "handleMaybeRetryAnalytics", ctxDeadline |-> cd, serverDeadline |-> sd,
       b |-> b, at |-> t, payload |-> pl] :
        cd \in Instants, sd \in Instants, b \in Backoffs,
        t \in 1..MaxInstant, pl \in DecisionPayloads }

(* Classified server errors: what parseAnalyticsErrorResponse makes of a    *)
(* body and a status.                                                       *)
ClassifiedErrors ==
    { parseAnalyticsErrorResponse(rb, st, 0, "") : rb \in Bodies, st \in Statuses }
        \ {NilErr}

ClassifyInputs == { [fn |-> "isAnalyticsErrorRetriable", cErr |-> e] : e \in ClassifiedErrors }

(* A nil *x509.CertPool, and the pool holding the certificates of a source. *)
NilPool == [isNil |-> TRUE]
CertPool(certs) == [isNil |-> FALSE, certs |-> certs]

(* A nil TrustOnly. *)
NilTrust == [type |-> "nil"]

(* A nil *bool, and a pointer to a value. *)
NilBool == [isNil |-> TRUE]
BoolPtr(val) == [isNil |-> FALSE, val |-> val]

ErrSystemCertPool == [name |-> "system cert pool unavailable"]

(* the ID of the named suite among tls.CipherSuites() and                   *)
(* tls.InsecureCipherSuites(), 0 when there is none *)
CipherSuiteID(name) ==
    IF name = "TLS_AES_128_GCM_SHA256" THEN 4865
    ELSE IF name = "TLS_RSA_WITH_RC4_128_SHA" THEN 5
    ELSE 0

(* createTlsConfig: the suites by ID (0 for an unknown name; a nil list is  *)
(* the empty sequence), and if pool == nil { insecureSkipVerify = true } *)
createTlsConfig(cipherSuite, pool) ==
    [MinVersion |-> "VersionTLS13",
     CipherSuites |-> [i \in 1..Len(cipherSuite) |-> CipherSuiteID(cipherSuite[i])],
     RootCAs |-> pool,
     InsecureSkipVerify |-> (pool = NilPool)]

(* newHTTPClusterClient, the TLS part: trustOnly defaults to                *)
(* TrustOnlyCapella{}; the switch on its type sets the outer pool in every  *)
(* case but TrustOnlyCapella, whose "pool := x509.NewCertPool()" declares a *)
(* new pool local to the case; then pool = nil when verification is         *)
(* disabled.  systemPool and files are what x509.SystemCertPool and         *)
(* os.ReadFile give. *)
newHTTPClusterClient(opts, systemPool, files) ==
    LET trustOnly == IF opts.TrustOnly = NilTrust THEN [type |-> "TrustOnlyCapella"]
                     ELSE opts.TrustOnly
        failed(e) == [err |-> e, TLSConfig |-> NilOpt]
        disabled == /\ opts.DisableServerCertificateVerification # NilBool
                    /\ opts.DisableServerCertificateVerification.val
        built(pool) ==
            [err |-> NilErr,
             TLSConfig |-> createTlsConfig(opts.CipherSuites,
                                           IF disabled THEN NilPool ELSE pool)]
    IN  IF trustOnly.type = "TrustOnlyCapella" THEN built(NilPool)
        ELSE IF trustOnly.type = "TrustOnlySystem"
        THEN IF systemPool = NilPool
             THEN failed([name |-> "failed to read system cert pool",
                          wraps |-> ErrSystemCertPool])
             ELSE built(systemPool)
        ELSE IF trustOnly.type = "TrustOnlyPemFile"
        THEN IF trustOnly.Path \notin files
             THEN failed([name |-> "failed to read pem file", wraps |-> ErrReadFile])
             ELSE built(CertPool(trustOnly.Path))
        ELSE IF trustOnly.type = "TrustOnlyPemString"
        THEN built(CertPool(trustOnly.Pem))
        ELSE built(trustOnly.Certificates)

(* The trust sources a caller can give, nil for none. *)
TrustSources ==
    {NilTrust, [type |-> "TrustOnlyCapella"], [type |-> "TrustOnlySystem"],
     [type |-> "TrustOnlyPemString", Pem |-> "pem"]}
    \cup { [type |-> "TrustOnlyPemFile", Path |-> f] : f \in PemFiles }
    \cup { [type |-> "TrustOnlyCertificates", Certificates |-> c] :
               c \in {NilPool, CertPool("given")} }

ClusterClientInputs ==
    { [fn |-> "newHTTPClusterClient",
       opts |-> [TrustOnly |-> to, DisableServerCertificateVerification |-> d,
                 CipherSuites |-> cs],
       systemPool |-> sp, files |-> {"ok.pem"}] :
        to \in TrustSources, d \in {NilBool, BoolPtr(FALSE), BoolPtr(TRUE)},
        cs \in {<<>>, <<"TLS_AES_128_GCM_SHA256", "unknown">>},
        sp \in {NilPool, CertPool("system")} }

FnInputs ==
    CalcInputs \cup TranslateInputs \cup PayloadInputs \cup NewClusterInputs
        \cup DecisionInputs \cup ClassifyInputs \cup ClusterClientInputs

FnInit ==
    /\ CallIdle
    /\ input \in FnInputs
    /\ output = NoOutput
    /\ reader = NoReader
    /\ calls = <<>>

(* calc(retryAttempts) *)
Calculate ==
    /\ input.fn = "calc"
    /\ output = NoOutput
    /\ output' = [kind |-> "delay", d |-> backoffCalculator(input.retryAttempts, input.r)]
    /\ UNCHANGED <<callVars, leakVars, input, reader, calls>>

(* translateClientError(err) *)
Translate ==
    /\ input.fn = "translateClientError"
    /\ output = NoOutput
    /\ output' = [kind |-> "error", err |-> translateClientError(input.err)]
    /\ UNCHANGED <<callVars, leakVars, input, reader, calls>>

(* Cluster.ExecuteQuery / Scope.ExecuteQuery -> httpQueryClient.Query up    *)
(* to the payload: if ctx == nil ...; clientOpts, err :=                    *)
(* c.translateQueryOptions(ctx, statement, opts) ...                        *)
BuildPayload ==
    /\ input.fn = "clientOpts"
    /\ output = NoOutput
    /\ output' = LET ctx == CtxOrBackground(input.ctx)
                     r == clientOpts(input.opts, input.namespace, ctx.deadline, input.at)
                 IN  IF r.err # NilErr
                     THEN [kind |-> "error", err |-> r.err]
                     ELSE [kind |-> "payload", Payload |-> r.Payload]
    /\ UNCHANGED <<callVars, leakVars, input, reader, calls>>

(* NewCluster(httpEndpoint, credential, opts...) *)
Construct ==
    /\ input.fn = "NewCluster"
    /\ output = NoOutput
    /\ output' = LET r == NewCluster(input.httpEndpoint, input.query, input.credential,
                                     input.opts)
                 IN  [kind |-> "cluster", err |-> r.err, cluster |-> r.cluster, io |-> r.io]
    /\ UNCHANGED <<callVars, leakVars, input, reader, calls>>

(* newBody, err := handleMaybeRetryAnalytics(ctxDeadline, serverDeadline,   *)
(*                                            backoff, opts.Payload)        *)
Decide ==
    /\ input.fn = "handleMaybeRetryAnalytics"
    /\ output = NoOutput
    /\ output' = LET hm == handleMaybeRetryAnalytics(input.ctxDeadline, input.serverDeadline,
                                                     input.b, input.at, input.payload)
                 IN  [kind |-> "decision", err |-> hm.err, payload |-> hm.payload,
                      body |-> hm.body, now |-> hm.now]
    /\ UNCHANGED <<callVars, leakVars, input, reader, calls>>

(* first, retriable := isAnalyticsErrorRetriable(cErr) *)
Classify ==
    /\ input.fn = "isAnalyticsErrorRetriable"
    /\ output = NoOutput
    /\ output' = LET r == isAnalyticsErrorRetriable(input.cErr)
                 IN  [kind |-> "retriable", hasFirst |-> r.hasFirst, first |-> r.first,
                      retriable |-> r.retriable]
    /\ UNCHANGED <<callVars, leakVars, input, reader, calls>>

(* newClusterClient(opts) -> newHTTPClusterClient(opts) *)
ConstructClient ==
    /\ input.fn = "newHTTPClusterClient"
    /\ output = NoOutput
    /\ output' = LET r == newHTTPClusterClient(input.opts, input.systemPool, input.files)
                 IN  [kind |-> "client", err |-> r.err, TLSConfig |-> r.TLSConfig]
    /\ UNCHANGED <<callVars, leakVars, input, reader, calls>>

FnNext ==
    \/ Calculate
    \/ Translate
    \/ BuildPayload
    \/ Construct
    \/ Decide
    \/ Classify
    \/ ConstructClient

FnSpec == FnInit /\ [][FnNext]_vars

(* The caller-facing entry points together: a call of ExecuteQuery, or a   *)
(* function applied to an input. *)
ApiInit == Init \/ FnInit

ApiNext ==
    \/ input = NoInput /\ Next
    \/ FnNext

ApiSpec == ApiInit /\ [][ApiNext]_vars

(* ------------------------------ row reader ----------------------------- *)
(* The rows of a results array are numbered 1, 2, ... in wire order; NoRow  *)
(* is the nil row.                                                          *)
NoRow == 0
NoFail == -1

ErrMetaDataNotReady == [name |-> "the result must be fully read before accessing the meta-data"]

(* The streamer of a 2xx response: the rows of its results array, how many  *)
(* it has yielded, after how many rows reading fails (NoFail: never), the   *)
(* latched error, whether NextRow has found the array exhausted, the        *)
(* trailing metadata, whether it was closed.                                *)
Trailers == { b \in Bodies : b.shape \in {"noerrors", "list"} /\ Len(b.errors) <= 1 }

newQueryStreamer(n, failAt, trailer) ==
    [results |-> [i \in 1..n |-> i], pos |-> 0, failAt |-> failAt, err |-> NilErr,
     done |-> FALSE, meta |-> trailer, closed |-> FALSE]

Streamers ==
    { newQueryStreamer(n, f, t) : n \in 0..MaxRows, f \in {NoFail} \cup (0..MaxRows), t \in Trailers }

(* streamer.NextRow(): the next row, nil when the array is exhausted, when  *)
(* reading failed (the failure is latched) or after Close                   *)
queryStreamer_NextRow(st) ==
    IF st.err # NilErr \/ st.closed \/ st.done
    THEN [streamer |-> st, row |-> NoRow]
    ELSE IF st.pos = st.failAt
    THEN [streamer |-> [st EXCEPT !.err = ErrBodyRead], row |-> NoRow]
    ELSE IF st.pos = Len(st.results)
    THEN [streamer |-> [st EXCEPT !.done = TRUE], row |-> NoRow]
    ELSE [streamer |-> [st EXCEPT !.pos = st.pos + 1], row |-> st.results[st.pos + 1]]

(* streamer.Err(): the latched error *)
queryStreamer_Err(st) == st.err

(* streamer.MetaData(): the metadata object once the array was read to its  *)
(* end, an error before                                                     *)
queryStreamer_MetaData(st) ==
    IF st.done
    THEN [meta |-> st.meta, err |-> NilErr]
    ELSE [meta |-> NoText, err |-> IF st.err # NilErr THEN st.err ELSE ErrMetaDataNotReady]

(* streamer.Close() *)
queryStreamer_Close(st) == [streamer |-> [st EXCEPT !.closed = TRUE], err |-> NilErr]

(* The end of Client.Query on a 2xx response: one row is peeked; without a  *)
(* row the call fails or goes to another attempt when the stream failed or  *)
(* the metadata reports errors, and returns a reader otherwise.             *)
newQueryRowReader(st0) ==
    LET first == queryStreamer_NextRow(st0)
        st == first.streamer
        md == queryStreamer_MetaData(st)
        cErr == parseAnalyticsErrorResponse(md.meta, 200, 0, "")
        rd == [kind |-> "reader", streamer |-> st, statusCode |-> 200, peeked |-> first.row]
    IN  IF first.row # NoRow THEN rd
        ELSE IF queryStreamer_Err(st) # NilErr THEN NoReader
        ELSE IF md.err # NilErr THEN NoReader
        ELSE IF cErr # NilErr THEN NoReader
        ELSE rd

Readers == { newQueryRowReader(st0) : st0 \in Streamers } \ {NoReader}

(* Variant: the peeked row is handed out without being cleared. *)
QueryRowReader_NextRow_keepPeeked(q) ==
    IF q.peeked # NoRow
    THEN [reader |-> q, row |-> q.peeked]
    ELSE LET nx == queryStreamer_NextRow(q.streamer)
         IN  [reader |-> [q EXCEPT !.streamer = nx.streamer], row |-> nx.row]

(* QueryRowReader.NextRow *)
QueryRowReader_NextRow(q) ==
    IF q.peeked # NoRow
    THEN [reader |-> [q EXCEPT !.peeked = NoRow], row |-> q.peeked]
    ELSE LET nx == queryStreamer_NextRow(q.streamer)
         IN  [reader |-> [q EXCEPT !.streamer = nx.streamer], row |-> nx.row]

(* QueryRowReader.Err *)
QueryRowReader_Err(q) ==
    LET err == queryStreamer_Err(q.streamer)
        md == queryStreamer_MetaData(q.streamer)
    IN  IF err # NilErr THEN err
        ELSE IF md.err # NilErr THEN md.err
        ELSE parseAnalyticsErrorResponse(md.meta, q.statusCode, 0, "")

(* QueryRowReader.MetaData *)
QueryRowReader_MetaData(q) == queryStreamer_MetaData(q.streamer)

(* QueryRowReader.Close *)
QueryRowReader_Close(q) ==
    LET cl == queryStreamer_Close(q.streamer)
    IN  [reader |-> [q EXCEPT !.streamer = cl.streamer], err |-> cl.err]

(* clientRowReader.NextRow *)
clientRowReader_NextRow(q) == QueryRowReader_NextRow(q)

(* clientRowReader.MetaData: the metadata bytes unmarshal, whatever their   *)
(* errors member holds *)
clientRowReader_MetaData(q) ==
    LET md == QueryRowReader_MetaData(q)
    IN  IF md.err # NilErr THEN translateClientError(md.err) ELSE NilErr

(* clientRowReader.Close *)
clientRowReader_Close(q) ==
    LET cl == QueryRowReader_Close(q)
    IN  [reader |-> cl.reader,
         err |-> IF cl.err # NilErr THEN translateClientError(cl.err) ELSE NilErr]

(* Variant: the error of the inner reader is passed on as it is. *)
clientRowReader_Err_untranslated(q) ==
    LET err == QueryRowReader_Err(q)
    IN  IF err # NilErr THEN err ELSE NilErr

(* clientRowReader.Err *)
clientRowReader_Err(q) ==
    LET err == QueryRowReader_Err(q)
    IN  IF err # NilErr THEN translateClientError(err) ELSE NilErr

(* the rows have ended: NextRow of the streamer has returned nil *)
Exhausted(q) == q.streamer.done \/ q.streamer.err # NilErr

(* one entry of the history of calls made on the reader *)
Call(op, q, row, err) ==
    [op |-> op, row |-> row, err |-> err, peeked |-> q.peeked, exhausted |-> Exhausted(q)]

ReaderInit ==
    /\ CallIdle
    /\ input = NoInput
    /\ output = NoOutput
    /\ reader \in Readers
    /\ calls = <<>>

CallNextRow ==
    /\ Len(calls) < MaxCalls
    /\ LET nx == clientRowReader_NextRow(reader)
       IN  /\ reader' = nx.reader
           /\ calls' = Append(calls, Call("NextRow", reader, nx.row, NilErr))
    /\ UNCHANGED <<callVars, leakVars, input, output>>

CallMetaData ==
    /\ Len(calls) < MaxCalls
    /\ calls' = Append(calls, Call("MetaData", reader, NoRow, clientRowReader_MetaData(reader)))
    /\ UNCHANGED <<callVars, leakVars, input, output, reader>>

CallErr ==
    /\ Len(calls) < MaxCalls
    /\ calls' = Append(calls, Call("Err", reader, NoRow, clientRowReader_Err(reader)))
    /\ UNCHANGED <<callVars, leakVars, input, output, reader>>

CallClose ==
    /\ Len(calls) < MaxCalls
    /\ LET cl == clientRowReader_Close(reader)
       IN  /\ reader' = cl.reader
           /\ calls' = Append(calls, Call("Close", reader, NoRow, cl.err))
    /\ UNCHANGED <<callVars, leakVars, input, output>>

ReaderNext ==
    \/ CallNextRow
    \/ CallMetaData
    \/ CallErr
    \/ CallClose

ReaderSpec == ReaderInit /\ [][ReaderNext]_vars

(* --------------------------- package leakcheck ------------------------- *)
(* Goroutines call WrapHTTPResponse, Read and Close of a wrapped body, and  *)
(* ReportLeakedHTTPResponses.  A step is what a goroutine does between two  *)
(* points where another can run: taking the mutex, the section up to its    *)
(* release, a load of trackedResps made without the mutex.                  *)
Access(fn, g) == [fn |-> fn, held |-> trackedRespsLock = g]

At(g, at, b, then) == [goroutines EXCEPT ![g] = [@ EXCEPT !.at = at, !.body = b, !.then = then]]

(* recordIdx is the index of the last record that is l; the record at       *)
(* recordIdx is cut out.                                                    *)
removeTrackedHTTPBodyRecord(tracked, l) ==
    LET matches == { i \in 1..Len(tracked) : tracked[i] = l }
    IN  IF matches = {} THEN tracked
        ELSE RemoveAt(tracked, CHOOSE i \in matches : \A j \in matches : j <= i)

(* What a load of trackedResps made without the mutex can see: the slice    *)
(* as it is, or as a goroutine inside its critical section is about to      *)
(* leave it.                                                                *)
Observed(g) ==
    {trackedResps}
        \cup { Append(trackedResps, goroutines[h].body) :
                 h \in { x \in Goroutines \ {g} : goroutines[x].at = "wrap" } }
        \cup { removeTrackedHTTPBodyRecord(trackedResps, goroutines[h].body) :
                 h \in { x \in Goroutines \ {g} : goroutines[x].at = "remove" } }

OthersIdle(g) == \A h \in Goroutines \ {g} : goroutines[h].at = "idle"

leakFrame == <<callVars, input, output, reader, calls>>

(* atomic.StoreUint32(&leakTrackingEnabled, 1) *)
EnableHTTPResponseTracking ==
    /\ ~leakTrackingEnabled
    /\ leakTrackingEnabled' = TRUE
    /\ UNCHANGED <<leakFrame, trackedRespsLock, trackedResps, resps, goroutines, accesses>>

(* WrapHTTPResponse: the load of leakTrackingEnabled; trackingBody := ... *)
WrapHTTPResponse(g, b) ==
    /\ goroutines[g].at = "idle"
    /\ resps[b].wrapped = "no"
    /\ \A h \in Goroutines : goroutines[h].body # b
    /\ IF ~leakTrackingEnabled
       THEN /\ resps' = [resps EXCEPT ![b].wrapped = "plain"]
            /\ UNCHANGED goroutines
       ELSE /\ goroutines' = At(g, "wrap-lock", b, "none")
            /\ UNCHANGED resps
    /\ UNCHANGED <<leakFrame, leakTrackingEnabled, trackedRespsLock, trackedResps, accesses>>

(* trackedRespsLock.Lock() *)
WrapLock(g) ==
    /\ goroutines[g].at = "wrap-lock"
    /\ trackedRespsLock = Unlocked
    /\ trackedRespsLock' = g
    /\ goroutines' = At(g, "wrap", goroutines[g].body, "none")
    /\ UNCHANGED <<leakFrame, leakTrackingEnabled, trackedResps, resps, accesses>>

(* trackedResps = append(trackedResps, trackingBody);                       *)
(* trackedRespsLock.Unlock(); resp.Body = trackingBody                      *)
WrapAppend(g) ==
    /\ goroutines[g].at = "wrap"
    /\ trackedResps' = Append(trackedResps, goroutines[g].body)
    /\ accesses' = accesses \cup {Access("WrapHTTPResponse", g)}
    /\ trackedRespsLock' = Unlocked
    /\ resps' = [resps EXCEPT ![goroutines[g].body].wrapped = "tracked"]
    /\ goroutines' = [goroutines EXCEPT ![g] = Idle]
    /\ UNCHANGED <<leakFrame, leakTrackingEnabled>>

(* What parent.Read can return for the state the parent body is in. *)
ReadResults(state) ==
    IF state = "closed" THEN {"error"}
    ELSE IF state = "eof" THEN {"EOF"}
    ELSE {"data", "EOF", "canceled", "error"}

(* leakTrackingReadCloser.Read, or the parent's Read for a body that was    *)
(* not wrapped                                                              *)
Read(g, b, r) ==
    /\ goroutines[g].at = "idle"
    /\ resps[b].wrapped \in {"plain", "tracked"}
    /\ \A h \in Goroutines : goroutines[h].body # b
    /\ r \in ReadResults(resps[b].state)
    /\ resps' = IF r = "EOF" THEN [resps EXCEPT ![b].state = "eof"] ELSE resps
    /\ goroutines' = IF resps[b].wrapped = "tracked" /\ r \in {"EOF", "canceled"}
                     THEN At(g, "remove-lock", b, "read")
                     ELSE goroutines
    /\ UNCHANGED <<leakFrame, leakTrackingEnabled, trackedRespsLock, trackedResps, accesses>>

(* leakTrackingReadCloser.Close is called, or the parent's Close for a      *)
(* body that was not wrapped                                                *)
CloseBody(g, b) ==
    /\ goroutines[g].at = "idle"
    /\ resps[b].wrapped \in {"plain", "tracked"}
    /\ ~resps[b].closeCalled
    /\ \A h \in Goroutines : goroutines[h].body # b
    /\ IF resps[b].wrapped = "tracked"
       THEN /\ resps' = [resps EXCEPT ![b].closeCalled = TRUE]
            /\ goroutines' = At(g, "remove-lock", b, "close")
       ELSE /\ resps' = [resps EXCEPT ![b].closeCalled = TRUE, ![b].state = "closed"]
            /\ UNCHANGED goroutines
    /\ UNCHANGED <<leakFrame, leakTrackingEnabled, trackedRespsLock, trackedResps, accesses>>

(* removeTrackedHTTPBodyRecord: trackedRespsLock.Lock() *)
RemoveLock(g) ==
    /\ goroutines[g].at = "remove-lock"
    /\ trackedRespsLock = Unlocked
    /\ trackedRespsLock' = g
    /\ goroutines' = At(g, "remove", goroutines[g].body, goroutines[g].then)
    /\ UNCHANGED <<leakFrame, leakTrackingEnabled, trackedResps, resps, accesses>>

(* removeTrackedHTTPBodyRecord: the scan, the cut, trackedRespsLock.Unlock(); *)
(* then Read returns, or Close goes on to l.parent.Close()                  *)
RemoveUnlock(g) ==
    /\ goroutines[g].at = "remove"
    /\ trackedResps' = removeTrackedHTTPBodyRecord(trackedResps, goroutines[g].body)
    /\ accesses' = accesses \cup {Access("removeTrackedHTTPBodyRecord", g)}
    /\ trackedRespsLock' = Unlocked
    /\ resps' = IF goroutines[g].then = "close"
                THEN [resps EXCEPT ![goroutines[g].body].state = "closed"]
                ELSE resps
    /\ goroutines' = [goroutines EXCEPT ![g] = Idle]
    /\ UNCHANGED <<leakFrame, leakTrackingEnabled>>

(* ReportLeakedHTTPResponses: if len(trackedResps) == 0 { return true } *)
ReportLen(g) ==
    \E seen \in Observed(g) :
    /\ goroutines[g].at = "idle"
    /\ accesses' = accesses \cup {Access("ReportLeakedHTTPResponses", g)}
    /\ goroutines' =
          IF Len(seen) = 0
          THEN [goroutines EXCEPT ![g] =
                   [at |-> "reported", body |-> NoBody, then |-> "none", n |-> 0,
                    quiet |-> OthersIdle(g), ok |-> TRUE, leaked |-> {}]]
          ELSE [goroutines EXCEPT ![g] =
                   [at |-> "report-range", body |-> NoBody, then |-> "none",
                    n |-> Len(seen), quiet |-> OthersIdle(g)]]
    /\ UNCHANGED <<leakFrame, leakTrackingEnabled, trackedRespsLock, trackedResps, resps>>

(* ReportLeakedHTTPResponses: log.Printf("Found %d ..."); for _, leakRecord *)
(* := range trackedResps { ... }; return false                              *)
ReportRange(g) ==
    \E seen \in Observed(g) :
    /\ goroutines[g].at = "report-range"
    /\ accesses' = accesses \cup {Access("ReportLeakedHTTPResponses", g)}
    /\ goroutines' = [goroutines EXCEPT ![g] =
                         [at |-> "reported", body |-> NoBody, then |-> "none",
                          n |-> goroutines[g].n,
                          quiet |-> goroutines[g].quiet /\ OthersIdle(g),
                          ok |-> FALSE, leaked |-> { seen[i] : i \in 1..Len(seen) }]]
    /\ UNCHANGED <<leakFrame, leakTrackingEnabled, trackedRespsLock, trackedResps, resps>>

(* the caller of ReportLeakedHTTPResponses takes the result *)
ReportReturn(g) ==
    /\ goroutines[g].at = "reported"
    /\ goroutines' = [goroutines EXCEPT ![g] = Idle]
    /\ UNCHANGED <<leakFrame, leakTrackingEnabled, trackedRespsLock, trackedResps, resps,
                   accesses>>

LeakInit ==
    /\ CallIdle
    /\ input = NoInput
    /\ output = NoOutput
    /\ reader = NoReader
    /\ calls = <<>>

LeakNext ==
    \/ EnableHTTPResponseTracking
    \/ \E g \in Goroutines, b \in ResponseBodies : WrapHTTPResponse(g, b)
    \/ \E g \in Goroutines : WrapLock(g)
    \/ \E g \in Goroutines : WrapAppend(g)
    \/ \E g \in Goroutines, b \in ResponseBodies :
          \E r \in {"data", "EOF", "canceled", "error"} : Read(g, b, r)
    \/ \E g \in Goroutines, b \in ResponseBodies : CloseBody(g, b)
    \/ \E g \in Goroutines : RemoveLock(g)
    \/ \E g \in Goroutines : RemoveUnlock(g)
    \/ \E g \in Goroutines : ReportLen(g)
    \/ \E g \in Goroutines : ReportRange(g)
    \/ \E g \in Goroutines : ReportReturn(g)

LeakSpec == LeakInit /\ [][LeakNext]_vars

(* ------------------------------- properties ---------------------------- *)
Range(seq) == { seq[i] : i \in 1..Len(seq) }
Last == attempts[Len(attempts)]
Returned == pc = "done"
ReturnedError == pc = "done" /\ result.kind = "error"

(* The attempt received a response whose body (or, for a 2xx without a      *)
(* row, whose trailer) was read. *)
GotBody(a) ==
    a.outcome \in {"server-fatal", "server-exhausted", "server-retry", "no-errors", "no-rows"}

C2_Original ==
    \A k \in 1..Len(attempts) :
        (GotBody(attempts[k]) /\ HasNonRetriable(attempts[k].resp.errors))
            => /\ k = Len(attempts)
               /\ ReturnedError
               /\ result.err.Errors = attempts[k].resp.errors

(* C2 amended: the same for every response whose status is not 401. *)
C2_NonRetriableIsFatal ==
    \A k \in 1..Len(attempts) :
        (/\ GotBody(attempts[k])
         /\ attempts[k].status # 401
         /\ HasNonRetriable(attempts[k].resp.errors))
            => /\ k = Len(attempts)
               /\ ReturnedError
               /\ result.err.Errors = attempts[k].resp.errors

C2_Witness ==
    /\ ReturnedError
    /\ Len(attempts) >= 1
    /\ GotBody(Last)
    /\ Last.status = 500
    /\ Len(Last.resp.errors) = 2
    /\ Last.resp.errors[1].Retry
    /\ ~Last.resp.errors[2].Retry
    /\ result.err.Errors = Last.resp.errors

(* C3: every request body dispatched carries a client_context_id, the one   *)
(* the first attempt of the call carried. *)
C3_StableContextID ==
    \A k \in 1..Len(attempts) :
        /\ "client_context_id" \in DOMAIN attempts[k].body
        /\ attempts[k].body.client_context_id # NoID
        /\ attempts[k].body.client_context_id = attempts[1].body.client_context_id

C3_Witness ==
    /\ Len(attempts) >= 2
    /\ attempts[2].body.client_context_id = "user"
    /\ attempts[1].body.client_context_id = "user"

(* C4: with a server deadline in effect, the timeout submitted on attempt   *)
(* k+1 is strictly less than the timeout submitted on attempt k. *)
SubmittedTimeout(a) == ParseDuration(a.body.timeout)

C4_TimeoutDecreases ==
    serverDeadline # NoTime =>
        \A k \in 1..(Len(attempts) - 1) :
            /\ "timeout" \in DOMAIN attempts[k + 1].body
            /\ SubmittedTimeout(attempts[k + 1]) < SubmittedTimeout(attempts[k])

C4_Witness ==
    /\ serverDeadline # NoTime
    /\ Len(attempts) >= 2
    /\ SubmittedTimeout(attempts[2]) < SubmittedTimeout(attempts[1])

(* C5: with a caller deadline D, no attempt is dispatched later than D and  *)
(* Query returns at or before D. *)
C5_CallerDeadline ==
    ctxDeadline # NoTime =>
        /\ \A k \in 1..Len(attempts) : attempts[k].at <= ctxDeadline
        /\ Returned => now <= ctxDeadline

C5_Witness ==
    /\ ctxDeadline # NoTime
    /\ Returned
    /\ Len(attempts) >= 2
    /\ attempts[2].at > attempts[1].at
    /\ now = ctxDeadline

(* C6 as stated: with max_retries configured as N the call performs at      *)
(* most N retries. *)
C6_MaxRetries ==
    MaxRetries # NoRetries => retries <= MaxRetries /\ Len(attempts) <= MaxRetries + 1

(* C7 as stated: a call made after Close has returned sends no request and  *)
(* fails with ErrClosed. *)
ErrClosed == [name |-> "closed"]

C7_ClosedHandle ==
    closedAtCall =>
        /\ Len(attempts) = 0
        /\ Returned => (result.kind = "error" /\ ErrorsIs(result.err, ErrClosed))

TransportRetried == { attempts[k].addr : k \in { j \in 1..Len(attempts) :
                                                    attempts[j].outcome = "transport-retry" } }

C9_EndpointRotation ==
    pc \in {"loop", "sent", "sleep", "done"} /\ resolved # <<>> =>
        /\ Range(addrs) = Range(resolved) \ TransportRetried
        /\ Len(addrs) = Cardinality(Range(addrs))
        /\ \A k \in 1..Len(attempts) : \A j \in (k + 1)..Len(attempts) :
              attempts[k].outcome = "transport-retry" => attempts[j].addr # attempts[k].addr
        /\ \A k \in 1..Len(attempts) : attempts[k].addr \in Range(resolved)

C9_Witness ==
    /\ Len(attempts) >= 2
    /\ Len(resolved) = 2
    /\ attempts[1].outcome = "transport-retry"
    /\ attempts[1].addr = 2
    /\ attempts[2].addr = 1
    /\ addrs = <<1>>

(* C10: once every resolved address is off the candidate list nothing is    *)
(* in flight, and the call returns an error whose cause is the root cause   *)
(* of the transport failure that took the last address off. *)
C10_NoAddrsLeft ==
    resolved # <<>> /\ Len(addrs) = 0 =>
        /\ pc \in {"loop", "sleep", "done"}
        /\ Last.outcome = "transport-retry"
        /\ Returned =>
              /\ result.kind = "error"
              /\ result.err.InnerError # NilErr
              /\ result.err.InnerError =
                    IF Last.connectDoneErr = NilErr
                    THEN newObfuscateErrorWrapper("failed to send request", Last.err)
                    ELSE Last.connectDoneErr

C10_Witness ==
    /\ Returned
    /\ resolved # <<>>
    /\ Len(addrs) = 0
    /\ result.kind = "error"
    /\ result.err.InnerError = ErrDial

(* C11 as stated: when the caller cancels ctx while the retry controller    *)
(* sleeps, the call returns before the sleep would have ended, with the     *)
(* cancellation as the cause, and no attempt is dispatched at or after the  *)
(* end of that sleep. *)
CanceledInFlight ==
    \E k \in 1..Len(attempts) : ErrorsIs(attempts[k].err, ContextCanceled)

C11_CancelDuringSleep ==
    (canceled /\ ~CanceledInFlight) =>
        /\ \A k \in 1..Len(attempts) : attempts[k].at < wakeAt
        /\ Returned => /\ now < wakeAt
                       /\ result.kind = "error"
                       /\ ErrorsIs(result.err, ContextCanceled)

(* what httpQueryClient.Query hands to the caller of ExecuteQuery in place  *)
(* of the error of Client.Query *)
ExecuteQueryError == translateClientError(result.err)

NotSent == "operation not sent to server, as timeout would be exceeded"

(* C12 as stated: when Do fails on an attempt with the caller's             *)
(* cancellation or deadline, ExecuteQuery returns an error that wraps that  *)
(* cause and whose text does not say the operation was not sent. *)
C12_InFlightContextError ==
    \A k \in 1..Len(attempts) :
        \A cause \in {ContextCanceled, ContextDeadlineExceeded} :
            (ErrorsIs(attempts[k].err, cause) /\ Returned)
                => /\ result.kind = "error"
                   /\ ErrorsIs(ExecuteQueryError, cause)
                   /\ NotSent \notin ErrorString(ExecuteQueryError)

(* C13 as stated: when the retry controller refuses a retry, the error of   *)
(* ExecuteQuery wraps context.DeadlineExceeded if the caller's deadline was *)
(* the limit and the timeout error if the server deadline was, whatever     *)
(* descriptions are attached. *)
C13_BudgetExhausted ==
    (ReturnedError /\ Len(attempts) >= 1
        /\ Last.outcome \in {"server-exhausted", "transport-exhausted"})
        => /\ result.err.InnerError = ErrContextDeadlineWouldBeExceeded
                => ErrorsIs(ExecuteQueryError, ContextDeadlineExceeded)
           /\ result.err.InnerError = ErrTimeout
                => ErrorsIs(ExecuteQueryError, cbanalytics_ErrTimeout)

(* C14: the delay the calculator returns is at least min and at most max,   *)
(* and it is the scaled value itself whenever that lies within the two. *)
C14_BackoffInRange ==
    (input.fn = "calc" /\ output.kind = "delay") =>
        LET scaled == input.r * MinBackoff * Pow(BackoffFactor, input.retryAttempts)
        IN  /\ output.d >= MinBackoff * Draws
            /\ output.d <= MaxBackoff * Draws
            /\ (scaled >= MinBackoff * Draws /\ scaled <= MaxBackoff * Draws) => output.d = scaled

(* the upper clamp cuts the scaled value *)
C14_Witness ==
    /\ input.fn = "calc"
    /\ output.kind = "delay"
    /\ input.retryAttempts = 11
    /\ input.r = 3
    /\ output.d = MaxBackoff * Draws

(* the translated error of a response with descriptions is under way *)
TranslatedResponse ==
    /\ input.fn = "translateClientError"
    /\ input.from = "response"
    /\ Len(input.err.Errors) > 0
    /\ output.kind = "error"

HasCode(errors, c) == \E i \in 1..Len(errors) : errors[i].Code = c

(* the base error an error of ExecuteQuery leads to *)
RECURSIVE RootCause(_)
RootCause(err) == IF "cause" \in DOMAIN err THEN RootCause(err.cause) ELSE err

C16_ReportedEntry ==
    (input.fn = "translateClientError" /\ Len(input.err.Errors) > 0 /\ output.kind = "error") =>
        LET errors == input.err.Errors
            e == output.err
        IN  /\ "code" \in DOMAIN e
            /\ "httpResponseCode" \in DOMAIN e.cause
            /\ Len(e.cause.errors) = Len(errors)
            /\ \A i \in 1..Len(errors) :
                  /\ e.cause.errors[i].Code = errors[i].Code
                  /\ e.cause.errors[i].Message = errors[i].Message
            /\ \E k \in 1..Len(errors) :
                  /\ e.code = errors[k].Code
                  /\ e.message = errors[k].Message
                  /\ \A j \in 1..(k - 1) : errors[j].Retry
                  /\ (~errors[k].Retry \/ (k = 1 /\ ~HasNonRetriable(errors)))

C16_Witness ==
    /\ input.fn = "translateClientError"
    /\ output.kind = "error"
    /\ Len(input.err.Errors) = 2
    /\ input.err.Errors[1].Retry
    /\ input.err.Errors[1].Code = 23000
    /\ ~input.err.Errors[2].Retry
    /\ input.err.Errors[2].Code = 24000
    /\ output.err.code = 24000

BuiltWithRaw ==
    /\ input.fn = "clientOpts"
    /\ input.opts.Raw # {}
    /\ output.kind = "payload"

(* C20 as stated: every raw entry is in the payload with the raw value. *)
C20_Original ==
    BuiltWithRaw =>
        \A k \in input.opts.Raw :
            /\ k \in DOMAIN output.Payload
            /\ output.Payload[k] = RawMap(input.opts.Raw)[k]

(* the keys written after the raw entries for these options *)
WrittenAfterRaw ==
    {"timeout", "statement", "client_context_id"}
    \cup (IF input.opts.ScanConsistency # NilOpt THEN {"scan_consistency"} ELSE {})
    \cup (IF input.opts.ReadOnly # NilOpt THEN {"readonly"} ELSE {})
    \cup (IF input.namespace # NilOpt THEN {"query_context"} ELSE {})

(* C20 amended: a raw entry is in the payload with the raw value, args and  *)
(* $-named parameters included, unless its key is one written after the    *)
(* raw entries (scan_consistency, readonly and query_context when           *)
(* generated, timeout, statement, client_context_id): those carry the       *)
(* generated value. *)
C20_RawMergedMidway ==
    BuiltWithRaw =>
        \A k \in input.opts.Raw :
            /\ k \in DOMAIN output.Payload
            /\ k \notin WrittenAfterRaw => output.Payload[k] = RawMap(input.opts.Raw)[k]
            /\ k \in WrittenAfterRaw => output.Payload[k] # RawMap(input.opts.Raw)[k]

C20_Witness ==
    /\ BuiltWithRaw
    /\ input.opts.PositionalParameters # NilOpt
    /\ "args" \in input.opts.Raw
    /\ output.Payload["args"] = "raw"

(* the rows handed out by the NextRow calls so far, in call order *)
RECURSIVE Delivered(_)
Delivered(cs) ==
    IF cs = <<>> THEN <<>>
    ELSE LET rest == Delivered(SubSeq(cs, 1, Len(cs) - 1))
             last == cs[Len(cs)]
         IN  IF last.op = "NextRow" /\ last.row # NoRow THEN Append(rest, last.row) ELSE rest

IsPrefix(a, b) == Len(a) <= Len(b) /\ a = SubSeq(b, 1, Len(a))

NeverClosed == \A i \in DOMAIN calls : calls[i].op # "Close"

(* C17: while the reader is not closed the rows handed out by NextRow are   *)
(* a prefix of the results array, the peeked row first and once; when       *)
(* NextRow has returned nil and the stream did not fail they are the whole  *)
(* array, and every later NextRow returns nil. *)
C17_RowsInWireOrder ==
    (reader.kind = "reader" /\ NeverClosed) =>
        /\ IsPrefix(Delivered(calls), reader.streamer.results)
        /\ \A i \in DOMAIN calls :
              (calls[i].op = "NextRow" /\ calls[i].row = NoRow) =>
                  /\ reader.streamer.err = NilErr =>
                        Delivered(SubSeq(calls, 1, i)) = reader.streamer.results
                  /\ \A j \in DOMAIN calls :
                        (j > i /\ calls[j].op = "NextRow") => calls[j].row = NoRow

C17_Witness ==
    /\ reader.kind = "reader"
    /\ NeverClosed
    /\ reader.streamer.err = NilErr
    /\ Len(reader.streamer.results) = MaxRows
    /\ Len(calls) = MaxRows + 2
    /\ \A i \in DOMAIN calls : calls[i].op = "NextRow"
    /\ calls[1].row = calls[1].peeked
    /\ calls[1].peeked # NoRow
    /\ calls[MaxRows + 1].row = NoRow

(* both outcomes were seen on a reader whose rows have ended *)
BothTerminal(i, j) ==
    /\ calls[i].op = "MetaData" /\ calls[i].exhausted /\ calls[i].err = NilErr
    /\ calls[j].op = "Err" /\ calls[j].exhausted /\ calls[j].err # NilErr

C19_CloseDiscardsPeeked ==
    reader.kind = "reader" =>
        \A i, j \in DOMAIN calls :
            (/\ i < j
             /\ calls[i].op = "Close"
             /\ calls[i].peeked # NoRow
             /\ calls[j].op = "NextRow") => calls[j].row # calls[i].peeked

(* C21: the timeout of the payload built for the first attempt is the time  *)
(* from the call to the context deadline plus the safety pad when the       *)
(* context has a deadline, and the default query timeout when it has none   *)
(* or is nil. *)
C21_FirstTimeout ==
    (input.fn = "clientOpts" /\ output.kind = "payload") =>
        output.Payload["timeout"] =
            IF ~input.ctx.isNil /\ input.ctx.deadline # NoTime
            THEN DurationString((input.ctx.deadline - input.at) + SafetyPad)
            ELSE DurationString(queryTimeout)

C21_Witness ==
    /\ input.fn = "clientOpts"
    /\ output.kind = "payload"
    /\ ~input.ctx.isNil
    /\ input.ctx.deadline # NoTime
    /\ input.at > 0
    /\ output.Payload["timeout"] = DurationString((input.ctx.deadline - input.at) + SafetyPad)

Constructed == input.fn = "NewCluster" /\ output.kind = "cluster"
ParsedEndpoint == url_Parse(input.httpEndpoint)

(* C22 as stated: an endpoint whose scheme is not http or https, or that    *)
(* has no scheme, fails with the invalid-argument error; an accepted        *)
(* endpoint without a port gets 80 for http and 443 for https. *)
C22_Original ==
    Constructed =>
        /\ LowerString(getScheme(input.httpEndpoint, 1).scheme) \notin {http, https}
              => ErrorsIs(output.err, cbanalytics_ErrInvalidArgument)
        /\ (output.err = NilErr /\ URL_Port(ParsedEndpoint) = <<>>)
              => output.cluster.Address.Port =
                     (IF output.cluster.Scheme = http THEN 80 ELSE 443)

(* C22 amended: an endpoint that parses as a URL and whose scheme is not    *)
(* http or https (or is missing) fails with the invalid-argument error; an  *)
(* endpoint that does not parse fails with the parse error; an accepted     *)
(* endpoint without a port gets 80 for http and 443 for https. *)
C22_SchemeAndPort ==
    Constructed =>
        /\ (ParsedEndpoint.err = NilErr /\ ParsedEndpoint.Scheme \notin {http, https})
              => ErrorsIs(output.err, cbanalytics_ErrInvalidArgument)
        /\ ParsedEndpoint.err # NilErr
              => output.err = ParsedEndpoint.err
        /\ (output.err = NilErr /\ URL_Port(ParsedEndpoint) = <<>>)
              => /\ output.cluster.Scheme \in {http, https}
                 /\ output.cluster.Address.Port =
                        (IF output.cluster.Scheme = http THEN 80 ELSE 443)

C22_Witness ==
    /\ Constructed
    /\ output.err = NilErr
    /\ output.cluster.Scheme = http
    /\ URL_Port(ParsedEndpoint) = <<>>
    /\ output.cluster.Address.Port = 80

(* the timeout NewCluster ends up with for an option: the query string,     *)
(* else the options, else the default *)
EffectiveTimeout(name, option, default) ==
    IF name \in DOMAIN input.query THEN time_ParseDuration(input.query[name]).d
    ELSE IF option # NilDuration THEN option
    ELSE default

MalformedDuration(name) ==
    name \in DOMAIN input.query /\ time_ParseDuration(input.query[name]).err # NilErr

MalformedBool(name) ==
    name \in DOMAIN input.query /\ strconv_ParseBool(input.query[name]).err # NilErr

RejectedArgument ==
    \/ ParsedEndpoint.Scheme \notin {http, https}
    \/ MalformedDuration("timeout.connect_timeout")
    \/ MalformedDuration("timeout.query_timeout")
    \/ MalformedBool("security.disable_server_certificate_verification")
    \/ EffectiveTimeout("timeout.connect_timeout", input.opts.ConnectTimeout, 100) = 0
    \/ EffectiveTimeout("timeout.query_timeout", input.opts.QueryTimeout, 6000) = 0

(* C23: a call of ExecuteQuery with an unknown scan consistency has         *)
(* returned the invalid-argument error with no host resolved, no           *)
(* credential asked for and no request sent; NewCluster given an endpoint   *)
(* that parses fails with the invalid-argument error and without any I/O    *)
(* when the scheme is not http or https, a duration or the boolean of the   *)
(* query string is malformed, or a timeout is zero. *)
C23_RejectedBeforeIO ==
    /\ (pc # "idle" /\ UnknownScanConsistency(ScanConsistency)) =>
          /\ pc = "done"
          /\ ErrorsIs(result.err, cbanalytics_ErrInvalidArgument)
          /\ result.reader = NoReader
          /\ resolved = <<>>
          /\ attempts = <<>>
          /\ CredentialCalls(attempts) = 0
    /\ (Constructed /\ ParsedEndpoint.err = NilErr /\ RejectedArgument) =>
          /\ ErrorsIs(output.err, cbanalytics_ErrInvalidArgument)
          /\ output.cluster = NilCluster
          /\ output.io = <<>>

C23_Witness ==
    /\ pc = "done"
    /\ UnknownScanConsistency(ScanConsistency)
    /\ ErrorsIs(result.err, cbanalytics_ErrInvalidArgument)
    /\ attempts = <<>>

(* C24: for every attempt dispatched the credential provider was invoked    *)
(* once, the attempt is authenticated with the pair that invocation         *)
(* returned, and with a provider that hands out another pair each time      *)
(* attempt k carries pair k. *)
C24_CredentialPerAttempt ==
    /\ CredentialCalls(attempts) = Len(attempts)
    /\ \A k \in 1..Len(attempts) :
          /\ Len(attempts[k].credentials) = 1
          /\ attempts[k].auth = attempts[k].credentials[1]
          /\ attempts[k].auth = CredentialProvider(k)

C24_Witness ==
    /\ Len(attempts) >= 2
    /\ attempts[2].auth = CredentialProvider(2)
    /\ attempts[2].auth # attempts[1].auth

(* C25: when the call has returned it has handed back either a reader and  *)
(* a nil error, or no reader and an error that is not nil. *)
C25_ReaderOrError ==
    Returned =>
        \/ result.reader # NoReader /\ result.err = NilErr
        \/ result.reader = NoReader /\ result.err # NilErr

C25_Witness ==
    /\ Returned
    /\ Len(attempts) >= 2
    /\ lastRootErr # NilErr
    /\ result.reader # NoReader
    /\ result.err = NilErr

(* ------------------------- the retry controller ------------------------ *)
Decided == input.fn = "handleMaybeRetryAnalytics" /\ output.kind = "decision"

CallerDeadlineTooClose == input.at + input.b > input.ctxDeadline - input.b

(* C26: at a retry decision with backoff b and a caller deadline D, the     *)
(* controller returns deadline-would-be-exceeded, which wraps               *)
(* context.DeadlineExceeded, exactly when now + b is later than D - b; it   *)
(* does so whatever the server deadline is, without sleeping and without    *)
(* changing the payload.                                                    *)
C26_CallerDeadlineCheck ==
    (Decided /\ input.ctxDeadline # NoTime) =>
        /\ (output.err = ErrContextDeadlineWouldBeExceeded) <=> CallerDeadlineTooClose
        /\ output.err = ErrContextDeadlineWouldBeExceeded =>
              /\ ErrorsIs(output.err, ContextDeadlineExceeded)
              /\ output.now = input.at
              /\ output.payload = input.payload

(* A decision where both deadlines are too close: the caller's wins. *)
C26_Witness ==
    /\ Decided
    /\ input.ctxDeadline # NoTime
    /\ CallerDeadlineTooClose
    /\ input.serverDeadline # NoTime
    /\ input.serverDeadline - (input.at + input.b) < 0
    /\ output.err = ErrContextDeadlineWouldBeExceeded

(* C27 as stated: at a retry decision that passes the caller-deadline       *)
(* check, with a server deadline S and remaining = S - (now + b), the       *)
(* controller returns timeout without sleeping when remaining <= 0, so      *)
(* every sleep it enters and every attempt that follows one has             *)
(* remaining > 0; the payload timeout of that attempt equals remaining.     *)
C27_ServerDeadline ==
    serverDeadline # NoTime =>
        /\ pc = "sleep" =>
              /\ serverDeadline - wakeAt > 0
              /\ ParseDuration(payload.timeout) = serverDeadline - wakeAt
        /\ \A k \in 2..Len(attempts) :
              /\ serverDeadline - attempts[k].at > 0
              /\ SubmittedTimeout(attempts[k]) = serverDeadline - attempts[k].at

(* --------------------------- the retry predicate ----------------------- *)
Classified == input.fn = "isAnalyticsErrorRetriable" /\ output.kind = "retriable"

AllRetriable(errs) == Len(errs) > 0 /\ \A i \in 1..Len(errs) : errs[i].Retry

(* C28 as stated: a classified server error is reported retriable exactly   *)
(* when its error list is non-empty and every entry has retriable=true.     *)
C28_Original ==
    Classified => (output.retriable <=> AllRetriable(input.cErr.Errors))

(* C28: a classified server error is reported retriable exactly when it is  *)
(* the service-unavailable error, or its error list is non-empty and every  *)
(* entry has retriable=true.                                                *)
C28_RetryPredicate ==
    Classified =>
        (output.retriable <=>
            \/ ErrorsIs(input.cErr, ErrServiceUnavailable)
            \/ AllRetriable(input.cErr.Errors))

(* The service-unavailable error, whose list is empty, is retriable. *)
C28_Witness ==
    /\ Classified
    /\ ErrorsIs(input.cErr, ErrServiceUnavailable)
    /\ Len(input.cErr.Errors) = 0
    /\ output.retriable

(* ------------------------------ 503 responses -------------------------- *)
NoErrorsIn(respBody) ==
    \/ respBody.shape = "noerrors"
    \/ respBody.shape = "list" /\ Len(respBody.errors) = 0

(* C29 as stated: an attempt that received a 503 response whose body parses *)
(* with an empty or absent errors list is never the end of the call as a    *)
(* fatal response: it goes to the retry controller, which either lets       *)
(* another attempt follow or returns one of its two deadline errors.        *)
C29_Unavailable503 ==
    \A k \in 1..Len(attempts) :
        (attempts[k].status = 503 /\ GotBody(attempts[k]) /\ NoErrorsIn(attempts[k].resp))
            => /\ attempts[k].outcome \in {"server-retry", "server-exhausted"}
               /\ attempts[k].outcome = "server-exhausted" =>
                     /\ k = Len(attempts)
                     /\ ReturnedError
                     /\ result.err.InnerError \in {ErrContextDeadlineWouldBeExceeded, ErrTimeout}
               /\ (attempts[k].outcome = "server-retry" /\ Returned) => k < Len(attempts)

(* ------------------------- the payload between attempts ---------------- *)
OnlyTimeoutDiffers(p, q) ==
    /\ DOMAIN q = DOMAIN p
    /\ \A key \in DOMAIN p \ {"timeout"} : q[key] = p[key]

ControllerRefused ==
    /\ Len(attempts) >= 1
    /\ Last.outcome \in {"transport-exhausted", "server-exhausted"}

(* C30: the payloads of consecutive attempts of one call differ in nothing  *)
(* but the value of the timeout key; the retry controller hands back a      *)
(* payload with the same keys and, but for timeout, the same values, and    *)
(* the very payload it was given when it returns                            *)
(* deadline-would-be-exceeded or timeout.                                   *)
C30_OnlyTimeoutChanges ==
    /\ \A k \in 1..(Len(attempts) - 1) :
          OnlyTimeoutDiffers(attempts[k].body, attempts[k + 1].body)
    /\ ControllerRefused => Marshal(payload) = Last.body
    /\ Decided =>
          /\ OnlyTimeoutDiffers(input.payload, output.payload)
          /\ output.err \in {ErrContextDeadlineWouldBeExceeded, ErrTimeout} =>
                output.payload = input.payload

(* A call refused by the controller after a retry: the second attempt's     *)
(* payload differs from the first's in its timeout, and the refusal left    *)
(* it as it was.                                                            *)
C30_Witness ==
    /\ Len(attempts) = 2
    /\ attempts[2].body.timeout # attempts[1].body.timeout
    /\ ControllerRefused
    /\ result.err.InnerError = ErrTimeout
    /\ Marshal(payload) = attempts[2].body

(* --------------------------- last-error detail ------------------------- *)
RetriedWithEntries ==
    { k \in 1..Len(attempts) :
        attempts[k].outcome = "server-retry" /\ Len(attempts[k].resp.errors) > 0 }

MostRecent(ks) == CHOOSE k \in ks : \A j \in ks : j <= k

(* C31 as stated: a call that fails after a retried server error that       *)
(* carried entries returns an error whose last-error code and message are   *)
(* those of the reported (first) entry of the most recent such response,    *)
(* whatever failure ended the call.                                         *)
C31_LastDetailRetained ==
    (ReturnedError /\ RetriedWithEntries # {}) =>
        LET reported == attempts[MostRecent(RetriedWithEntries)].resp.errors[1]
        IN  /\ result.err.LastErrorCode = reported.Code
            /\ result.err.LastErrorMsg = reported.Message

(* ------------------------ the registry of open bodies ------------------ *)
(* C32 as stated: every read and every write of trackedResps, in wrapping   *)
(* a response, in removing a record and in reporting leaked responses, is   *)
(* made by a goroutine that holds trackedRespsLock.                         *)
C32_RegistryUnderMutex ==
    \A a \in accesses : a.held

NotClosed == { b \in ResponseBodies : resps[b].wrapped = "tracked" /\ ~resps[b].closeCalled }

ReportCompletes(g) ==
    /\ goroutines[g].at # "reported"
    /\ goroutines'[g].at = "reported"
    /\ goroutines'[g].quiet

(* C33 as stated: a report made while no other goroutine is inside the      *)
(* package names exactly the tracked bodies on which Close has not been     *)
(* called, and returns true only when there is none.                        *)
C33_ReportsUnclosed ==
    [][\A g \in Goroutines :
          ReportCompletes(g) =>
              /\ goroutines'[g].leaked = NotClosed
              /\ goroutines'[g].ok <=> (NotClosed = {})]_vars

(* ----------------------- non-2xx without error entries ----------------- *)
(* C34: an attempt that received a non-2xx response other than 401 and 503  *)
(* whose body parses with an empty or absent errors list is the last of     *)
(* the call: it is not retried, and Query returns the error "non-200        *)
(* status code but no errors in body" carrying the status and the body      *)
(* text.                                                                    *)
C34_NoErrorsIsFatal ==
    \A k \in 1..Len(attempts) :
        (/\ attempts[k].status \in Statuses \ {401, 503}
         /\ GotBody(attempts[k])
         /\ NoErrorsIn(attempts[k].resp))
            => /\ attempts[k].outcome = "no-errors"
               /\ k = Len(attempts)
               /\ ReturnedError
               /\ result.err.InnerError = ErrNoErrorsInBody
               /\ result.err.HTTPResponseCode = attempts[k].status
               /\ result.err.ErrorText = attempts[k].resp
               /\ result.err.Errors = <<>>

C34_Witness ==
    /\ ReturnedError
    /\ Len(attempts) = 2
    /\ Last.status = 500
    /\ Last.resp.shape = "noerrors"
    /\ Last.outcome = "no-errors"
    /\ result.err.ErrorText = Last.resp
    /\ result.err.HTTPResponseCode = 500

(* ------------------------------ termination ---------------------------- *)
(* C35: every call of ExecuteQuery eventually returns a reader or an        *)
(* error, whatever transport failures and retriable server errors it        *)
(* meets, when time advances and every dispatched request returns.          *)
(* The instants at which the attempt in flight can end. *)
DecisionTimes == ArrivalTimes \cup ExpiryTimes \cup {now}

(* No retry the controller allows is cut off by RetryBound or MaxTime: the  *)
(* calls of the model end because the code ends them.                       *)
RetryNeverCut ==
    pc = "sent" =>
        \A t \in DecisionTimes, b \in analyticsExponentialBackoffWithJitter(retries) :
            LET hm == handleMaybeRetryAnalytics(ctxDeadline, serverDeadline, b, t, payload)
            IN  hm.err = NilErr => (retries < RetryBound /\ hm.now <= MaxTime)

C35_CallReturns ==
    /\ []RetryNeverCut
    /\ (pc # "idle") ~> (pc = "done" /\ result.kind \in {"reader", "error"})

(* A call that met a retried server error and then ran out of its server    *)
(* timeout.                                                                 *)
C35_Witness ==
    /\ pc = "done"
    /\ Len(attempts) = 2
    /\ attempts[1].outcome = "server-retry"
    /\ Last.outcome = "server-exhausted"
    /\ result.err.InnerError = ErrTimeout

(* ------------------------------ error causes --------------------------- *)
(* C36 as stated: every error Query returns wraps a cause that is not nil,  *)
(* also when LookupHost succeeded with an empty address list.               *)
FromQuery(err) == "InnerError" \in DOMAIN err

C36_CauseNotNil ==
    (ReturnedError /\ FromQuery(result.err)) => result.err.InnerError # NilErr

(* ---------------------------- response bodies -------------------------- *)
(* What Query has done with resp.Body of attempt k when it leaves the       *)
(* attempt behind.  Query never calls resp.Body.Close().  A non-2xx body    *)
(* goes through io.ReadAll: at EOF when that succeeded, open when it        *)
(* failed.  A 2xx body is handed to the streamer; when the streamer cannot  *)
(* be made Query runs io.ReadAll on the rest.                               *)
BodyAfter(k) ==
    LET a == attempts[k]
    IN  IF a.outcome \in {"pending", "transport-fatal", "transport-exhausted", "transport-retry"}
        THEN "none"
        ELSE IF a.outcome = "read-failed"
        THEN "open"
        ELSE IF a.outcome = "streamer-failed"
        THEN IF result.err.InnerError.InnerError = NilErr THEN "eof" ELSE "open"
        ELSE IF a.status = 200
        THEN "streamer"
        ELSE "eof"

(* C37 as stated, for the bodies Query reads itself: when Query has         *)
(* returned an error or gone on to another attempt after receiving a        *)
(* response, the body of that response has been closed or read to EOF.      *)
C37_BodyReleased ==
    \A k \in 1..Len(attempts) :
        (BodyAfter(k) \notin {"none", "streamer"} /\ (k < Len(attempts) \/ ReturnedError))
            => BodyAfter(k) \in {"eof", "closed"}

(* --------------------- the two deadlines of a call --------------------- *)
(* C38: for a call made through ExecuteQuery with a context deadline D the  *)
(* server deadline is later than D, so a refusal of the retry controller    *)
(* is deadline-would-be-exceeded and Query never returns the controller's   *)
(* timeout error.                                                           *)
C38_ServerDeadlineAfterCaller ==
    (ctxDeadline # NoTime /\ serverDeadline # NoTime) =>
        /\ serverDeadline > ctxDeadline
        /\ (ReturnedError /\ FromQuery(result.err)) => result.err.InnerError # ErrTimeout
        /\ (Returned /\ ControllerRefused) =>
              result.err.InnerError = ErrContextDeadlineWouldBeExceeded

C38_Witness ==
    /\ ctxDeadline # NoTime
    /\ Returned
    /\ Len(attempts) = 2
    /\ attempts[1].outcome = "server-retry"
    /\ ControllerRefused
    /\ result.err.InnerError = ErrContextDeadlineWouldBeExceeded

DoFailed(a) ==
    a.outcome \in {"transport-fatal", "transport-exhausted", "transport-retry"}

(* What the ConnectDone hook of the attempt leaves in connectDoneErr. *)
Recorded(a) == IF a.connectDone = NoConnect THEN NilErr ELSE a.connectDone

(* C39: for each attempt whose Do failed, the executor reads from           *)
(* connectDoneErr what the connect-done hook of that attempt recorded (the  *)
(* hook's write comes before the read), so the failure ends the call as     *)
(* fatal exactly when the recorded connect outcome and the error of Do say  *)
(* so, whatever the interleaving of the dialling goroutine. *)
C39_HookBeforeRead ==
    \A k \in 1..Len(attempts) :
        DoFailed(attempts[k]) =>
            /\ attempts[k].connectDoneErr = Recorded(attempts[k])
            /\ (attempts[k].outcome = "transport-fatal") <=>
                   IsFatalTransport(attempts[k].err, Recorded(attempts[k]))

VerificationDisabled(opts) ==
    /\ opts.DisableServerCertificateVerification # NilBool
    /\ opts.DisableServerCertificateVerification.val

(* C40: the TLS configuration built for a cluster skips server certificate  *)
(* verification if and only if disable-server-certificate-verification is   *)
(* set to true, whatever the trust source, the default included. *)
C40_SkipVerifyIffDisabled ==
    (output # NoOutput /\ output.kind = "client" /\ output.err = NilErr) =>
        (output.TLSConfig.InsecureSkipVerify <=> VerificationDisabled(input.opts))

====
